---- MODULE Spec2Model ----
(***************************************************************************)
(* A model of the hanzi-game progression engine (class HanziGame), its     *)
(* data classes (Character, Phrase, Player, Item, Bag), the DataManager,   *)
(* the PracticeTracker and the battle part of GameUI.                      *)
(*                                                                         *)
(* Character keys are written in pinyin: "ni" is the glyph of              *)
(* DEFAULT_CHARACTERS['你'], "nihao" the phrase text '你好', and so on.     *)
(* Display-only fields (pinyin, meaning, icons, totalPractices,            *)
(* totalMistakes, bestAccuracy, totalPracticeTime, achievements) are read  *)
(* by no decision of the code and are left out of the records.             *)
(***************************************************************************)
EXTENDS Integers, Sequences, FiniteSets, TLC

VARIABLES
    characters,        \* HanziGame.characters: roster, key -> Character
    phrases,           \* HanziGame.phrases: text -> Phrase
    player,            \* HanziGame.player
    bag,               \* HanziGame.bag: items (item id -> quantity of the stack
                       \* stored under it) and maxSlots
    currentCharacter,  \* HanziGame.currentCharacter (an object reference)
    currentPhrase,     \* HanziGame.currentPhrase
    currentPhraseIndex,\* HanziGame.currentPhraseIndex
    screen,            \* GameUI.currentScreen: "practice-screen" or another one
    quizActive,        \* a HanziWriter quiz is running on the practice screen
    uiTimer,           \* the pending 2000 ms timer of handlePracticeComplete
    opsDone,           \* number of roster-changing operations so far (completions,
                       \* captures, item uses, additions, removals)
    sequenceLog,       \* characters completed since the last startPhraseSequence
    lastOp,            \* the operation that produced this state
    tracker,           \* PracticeTracker: practiceCount, battleUnlocked, ...
    practiceHistory,   \* the calls made on the tracker since it was fresh or reset:
                       \* practices, practices since the last battle, battles
    playerCharacters,  \* GameUI.battleState.playerCharacters
    currentPlayerCharacter, \* index of battleState.currentPlayerCharacter, 0: null
    enemies,           \* the opponent objects generated so far
    enemy,             \* index of battleState.enemy in enemies, 0: null
    timers,            \* the pending setTimeout callbacks of the battle screen
    attackBtnDisabled, \* elements.attackBtn.disabled
    fullDefeat,        \* the all-defeated branch of handlePlayerCharacterDefeated ran
    attacksDone,       \* number of executeAttack calls so far
    customCharacters,  \* DataManager.customCharacters
    customPhrases,     \* DataManager.customPhrases
    dataSource,        \* DataManager.dataSource
    lastImport         \* the last importCombinedData call: payload, stored data
                       \* before it, outcome

engineVars == <<characters, phrases, player, bag, currentCharacter, currentPhrase,
                currentPhraseIndex, screen, quizActive, uiTimer, opsDone, sequenceLog, lastOp>>

battleVars == <<tracker, practiceHistory, playerCharacters, currentPlayerCharacter, enemies, enemy,
                timers, attackBtnDisabled, fullDefeat, attacksDone>>

dataVars == <<customCharacters, customPhrases, dataSource, lastImport>>

vars == <<engineVars, battleVars, dataVars>>

-----------------------------------------------------------------------------
(* Bounds of the model *)

MaxOps == 2
MaxLevel == 4

None == "none"

Max(a, b) == IF a >= b THEN a ELSE b
Min(a, b) == IF a <= b THEN a ELSE b

\* JavaScript's  x || d  on a number: 0 and undefined both give d
OrDefault(x, d) == IF x = 0 THEN d ELSE x

RECURSIVE SumSeq(_)
SumSeq(s) == IF s = <<>> THEN 0 ELSE Head(s) + SumSeq(Tail(s))

SeqToSet(s) == {s[i] : i \in 1..Len(s)}

-----------------------------------------------------------------------------
(* Static data: a subset of DEFAULT_CHARACTERS, DEFAULT_PHRASES, DEFAULT_ITEMS *)

DEFAULT_CHARACTERS ==
    [ni  |-> [strokes |-> 7, difficulty |-> 1, frequency |-> 95],
     hao |-> [strokes |-> 6, difficulty |-> 1, frequency |-> 88],
     wo  |-> [strokes |-> 7, difficulty |-> 1, frequency |-> 98],
     shi |-> [strokes |-> 9, difficulty |-> 2, frequency |-> 97],
     yi  |-> [strokes |-> 1, difficulty |-> 1, frequency |-> 99]]

DEFAULT_PHRASES ==
    [nihao |-> [characters |-> <<"ni", "hao">>,
                requirements |-> [ni |-> 3, hao |-> 3],
                difficulty |-> 1, frequency |-> 95],
     woshi |-> [characters |-> <<"wo", "shi">>,
                requirements |-> [wo |-> 5, shi |-> 6],
                difficulty |-> 2, frequency |-> 80]]

DEFAULT_ITEMS ==
    [xp_boost_small  |-> [type |-> "xp_boost", value |-> 100],
     xp_boost_medium |-> [type |-> "xp_boost", value |-> 200],
     xp_boost_large  |-> [type |-> "xp_boost", value |-> 700]]

ItemIds == DOMAIN DEFAULT_ITEMS

\* createNewGame: const starters = ['你', '好', '我']
Starters == <<"ni", "hao", "wo">>

\* DataManager.getActiveCharacterData / getActivePhraseData (built-in source)
ActiveCharacterData == DEFAULT_CHARACTERS
ActivePhraseData == DEFAULT_PHRASES

-----------------------------------------------------------------------------
(* class Character *)

CharacterHP(c) == 20 + c.strokes * 3 + (c.level - 1) * 5
CharacterAttack(c) == 10 + (10 - (c.frequency \div 10)) + (c.level - 1) * 2
CharacterDefense(c) == 8 + c.difficulty * 4 + (c.level - 1) * 2

WithCharacterStats(c) ==
    [c EXCEPT !.hp = CharacterHP(c), !.attack = CharacterAttack(c),
              !.defense = CharacterDefense(c)]

\* new Character(char, data); a field of data that is 0 stands for a missing one
NewCharacter(data) ==
    WithCharacterStats(
        [strokes |-> OrDefault(data.strokes, 1),
         difficulty |-> OrDefault(data.difficulty, 1),
         frequency |-> OrDefault(data.frequency, 50),
         level |-> OrDefault(data.level, 1),
         xp |-> data.xp,
         isPhraseCharacter |-> data.isPhraseCharacter,
         originalPhrase |-> data.originalPhrase,
         hp |-> 0, attack |-> 0, defense |-> 0])

\* the data object of a definition of the active character data
DataOf(def) ==
    [strokes |-> def.strokes, difficulty |-> def.difficulty,
     frequency |-> def.frequency, level |-> 0, xp |-> 0,
     isPhraseCharacter |-> FALSE, originalPhrase |-> None]

CharacterXPForNextLevel(level) == level * 100

\* addXP without the recalculation of hp, attack and defense at a level-up
RECURSIVE CharacterLevelLoopStale(_)
CharacterLevelLoopStale(c) ==
    IF c.xp >= CharacterXPForNextLevel(c.level)
    THEN CharacterLevelLoopStale(
             [c EXCEPT !.xp = c.xp - CharacterXPForNextLevel(c.level),
                       !.level = c.level + 1])
    ELSE c

\* addXP with a single level-up test in place of the while loop
CharacterLevelOnce(c) ==
    IF c.xp >= CharacterXPForNextLevel(c.level)
    THEN WithCharacterStats([c EXCEPT !.xp = c.xp - CharacterXPForNextLevel(c.level),
                                      !.level = c.level + 1])
    ELSE c

\* Character.addXP: the while loop; stats are recomputed at every level-up
RECURSIVE CharacterLevelLoop(_)
CharacterLevelLoop(c) ==
    IF c.xp >= CharacterXPForNextLevel(c.level)
    THEN CharacterLevelLoop(WithCharacterStats(
             [c EXCEPT !.xp = c.xp - CharacterXPForNextLevel(c.level),
                       !.level = c.level + 1]))
    ELSE c

CharacterAddXP(c, amount) == CharacterLevelLoop([c EXCEPT !.xp = c.xp + amount])

\* calculateXPReward without the Math.max(5, ...) floor
CalculateXPRewardNoFloor(accuracy, mistakeCount, completionTime) ==
    20 + ((accuracy * 30) \div 100)
       + (IF completionTime < 30000 THEN 10 ELSE 0)
       - mistakeCount * 2

\* Character.calculateXPReward(accuracy / 100, mistakeCount, completionTime),
\* accuracy being the integer percentage of handleComplete: for each of
\* 0..100 the double Math.floor((accuracy / 100) * 30) is (accuracy * 30) div 100
CalculateXPReward(accuracy, mistakeCount, completionTime) ==
    Max(5, 20 + ((accuracy * 30) \div 100)
             + (IF completionTime < 30000 THEN 10 ELSE 0)
             - mistakeCount * 2)

-----------------------------------------------------------------------------
(* class Phrase *)

PhraseHP(p) == 50 + Len(p.characters) * 20 + (p.level - 1) * 10
PhraseAttack(p) == 15 + p.difficulty * 5 + (p.level - 1) * 3
PhraseDefense(p) == 12 + (15 - (p.frequency \div 15)) + (p.level - 1) * 3

WithPhraseStats(p) ==
    [p EXCEPT !.hp = PhraseHP(p), !.attack = PhraseAttack(p),
              !.defense = PhraseDefense(p)]

\* new Phrase(text, data); level 0 stands for a missing level
NewPhrase(data) ==
    WithPhraseStats(
        [characters |-> data.characters, requirements |-> data.requirements,
         difficulty |-> OrDefault(data.difficulty, 1),
         frequency |-> OrDefault(data.frequency, 50),
         level |-> OrDefault(data.level, 1), xp |-> data.xp,
         unlocked |-> data.unlocked,
         firstTimeCompleted |-> data.firstTimeCompleted,
         hp |-> 0, attack |-> 0, defense |-> 0])

\* the data object of a phrase definition: no progression fields
PhraseDataOf(def) ==
    [characters |-> def.characters, requirements |-> def.requirements,
     difficulty |-> def.difficulty, frequency |-> def.frequency,
     level |-> 0, xp |-> 0, unlocked |-> FALSE, firstTimeCompleted |-> FALSE]

\* canUnlock with > in place of >=: a level equal to the requirement is refused
CanUnlockStrict(p, roster) ==
    \A i \in 1..Len(p.characters) :
        LET k == p.characters[i] IN
        k \in DOMAIN roster /\ roster[k].level > p.requirements[k]

\* Phrase.canUnlock(characterCollection)
CanUnlock(p, roster) ==
    \A i \in 1..Len(p.characters) :
        LET k == p.characters[i] IN
        k \in DOMAIN roster /\ roster[k].level >= p.requirements[k]

PhraseXPForNextLevel(level) == level * 150

\* the XP of one Phrase.recordPractice
PhraseXPGained(n, isFirstCompletion) ==
    25 + n * 5 + (IF isFirstCompletion THEN 50 ELSE 0)

\* Phrase.recordPractice: one level-up test (an if, not a loop)
PhraseRecordPractice(p) ==
    LET isFirst == ~p.firstTimeCompleted
        xp1 == p.xp + PhraseXPGained(Len(p.characters), isFirst)
        q == [p EXCEPT !.firstTimeCompleted = TRUE, !.xp = xp1]
    IN IF xp1 >= PhraseXPForNextLevel(p.level)
       THEN WithPhraseStats([q EXCEPT !.xp = xp1 - PhraseXPForNextLevel(p.level),
                                      !.level = p.level + 1])
       ELSE q

-----------------------------------------------------------------------------
(* class Player *)

PlayerXPForNextLevel(level) == level * 200

RECURSIVE PlayerLevelLoop(_)
PlayerLevelLoop(pl) ==
    IF pl.xp >= PlayerXPForNextLevel(pl.level)
    THEN PlayerLevelLoop([pl EXCEPT !.xp = pl.xp - PlayerXPForNextLevel(pl.level),
                                    !.level = pl.level + 1])
    ELSE pl

PlayerAddXP(pl, amount) == PlayerLevelLoop([pl EXCEPT !.xp = pl.xp + amount])

-----------------------------------------------------------------------------
(* class Bag / Item: bag.items holds one Item per stored id; of an Item the
   quantity is kept, its other fields follow from its id *)

BagMaxSlots == 50

\* an object without stacks
NoItems == [i \in {} |-> 0]

\* Item.type: that of DEFAULT_ITEMS, 'misc' for any other id
ItemType(itemId) ==
    IF itemId \in DOMAIN DEFAULT_ITEMS THEN DEFAULT_ITEMS[itemId].type ELSE "misc"

\* new Bag(data): maxSlots = data.maxSlots || 50, one new Item(id, itemData)
\* per entry with quantity = data.quantity || 1
NewBag(data) ==
    [items |-> [i \in DOMAIN data.items |-> OrDefault(data.items[i], 1)],
     maxSlots |-> OrDefault(data.maxSlots, BagMaxSlots)]

\* Bag.toJSON: maxSlots and the toJSON of every Item
BagToJSON(b) == [items |-> b.items, maxSlots |-> b.maxSlots]

\* Object.keys(this.items).length
BagSlotsUsed(b) == Cardinality(DOMAIN b.items)

\* Bag.addItem succeeds iff the stack exists or a slot is free
BagCanAdd(b, itemId) == itemId \in DOMAIN b.items \/ BagSlotsUsed(b) < b.maxSlots

\* addItem without the test of maxSlots
BagAddItemNoLimit(b, itemId, quantity) ==
    IF itemId \in DOMAIN b.items
    THEN [b EXCEPT !.items[itemId] = @ + quantity]
    ELSE [b EXCEPT !.items = (itemId :> OrDefault(quantity, 1)) @@ @]

\* Bag.addItem(itemId, quantity): addQuantity on a stack, a new Item (quantity
\* || 1) in a free slot, nothing in a full bag
BagAddItem(b, itemId, quantity) ==
    IF itemId \in DOMAIN b.items
    THEN [b EXCEPT !.items[itemId] = @ + quantity]
    ELSE IF BagSlotsUsed(b) >= b.maxSlots THEN b
    ELSE [b EXCEPT !.items = (itemId :> OrDefault(quantity, 1)) @@ @]

\* the items without the stack of itemId
WithoutStack(items, itemId) == [i \in DOMAIN items \ {itemId} |-> items[i]]

\* Bag.removeItem(itemId, quantity)
BagRemoveItem(b, itemId, quantity) ==
    IF itemId \notin DOMAIN b.items \/ b.items[itemId] < quantity THEN b
    ELSE IF b.items[itemId] - quantity <= 0
    THEN [b EXCEPT !.items = WithoutStack(@, itemId)]
    ELSE [b EXCEPT !.items[itemId] = @ - quantity]

\* a use that takes the unit and keeps the stack in the bag at quantity 0
BagUseItemKeepStack(b, itemId) ==
    IF ItemType(itemId) # "xp_boost" THEN b
    ELSE [b EXCEPT !.items[itemId] = Max(0, @ - 1)]

\* Bag.useItem(itemId, character) on a stored stack -> Item.use: an xp_boost
\* loses one unit (Math.max(0, quantity - 1)) and the stack is deleted at 0;
\* an item of another type cannot be used
BagUseItem(b, itemId) ==
    IF ItemType(itemId) # "xp_boost" THEN b
    ELSE IF Max(0, b.items[itemId] - 1) <= 0
    THEN [b EXCEPT !.items = WithoutStack(@, itemId)]
    ELSE [b EXCEPT !.items[itemId] = Max(0, @ - 1)]

-----------------------------------------------------------------------------
(* class HanziGame: helpers *)

\* HanziGame.checkForNewUnlocks: the phrases it unlocks
NewUnlocks(phs, roster) ==
    {t \in DOMAIN phs : ~phs[t].unlocked /\ CanUnlock(phs[t], roster)}

CheckForNewUnlocks(phs, roster) ==
    [t \in DOMAIN phs |->
        IF t \in NewUnlocks(phs, roster) THEN [phs[t] EXCEPT !.unlocked = TRUE]
        ELSE phs[t]]

\* HanziGame.initializePhrases: adds the active definitions that are missing
InitializePhrases(phs) ==
    [t \in DOMAIN phs \cup DOMAIN ActivePhraseData |->
        IF t \in DOMAIN phs THEN phs[t] ELSE NewPhrase(PhraseDataOf(ActivePhraseData[t]))]

RECURSIVE SumLevels(_, _)
SumLevels(roster, keys) ==
    IF keys = {} THEN 0
    ELSE LET k == CHOOSE x \in keys : TRUE
         IN roster[k].level + SumLevels(roster, keys \ {k})

\* HanziGame.getPlayerLevelStats
GetPlayerLevelStats(roster) ==
    IF DOMAIN roster = {} THEN [averageLevel |-> 1, maxLevel |-> 1, minLevel |-> 1]
    ELSE LET levels == {roster[k].level : k \in DOMAIN roster}
         IN [averageLevel |-> SumLevels(roster, DOMAIN roster)
                                  \div Cardinality(DOMAIN roster),
             maxLevel |-> CHOOSE m \in levels : \A l \in levels : m >= l,
             minLevel |-> CHOOSE m \in levels : \A l \in levels : m <= l]

\* calculateStrokeModifier with < in place of <=: a stroke count on the edge
\* of a tier falls in the next one
CalculateStrokeModifierStrict(strokeCount) ==
    IF strokeCount < 3 THEN -2
    ELSE IF strokeCount < 6 THEN -1
    ELSE IF strokeCount < 10 THEN 0
    ELSE IF strokeCount < 15 THEN 1
    ELSE 2

\* HanziGame.calculateStrokeModifier
CalculateStrokeModifier(strokeCount) ==
    IF strokeCount <= 3 THEN -2
    ELSE IF strokeCount <= 6 THEN -1
    ELSE IF strokeCount <= 10 THEN 0
    ELSE IF strokeCount <= 15 THEN 1
    ELSE 2

\* the values targetLevel can take in calculateOpponentLevel (Math.random)
TargetLevels(roster) ==
    LET st == GetPlayerLevelStats(roster) IN
    IF st.averageLevel <= 3
    THEN {st.averageLevel + r - 1 : r \in 0..2}
    ELSE LET levelSpread == Min(3, ((st.maxLevel - st.minLevel) \div 2) + 1)
             minTarget == Max(1, st.averageLevel - levelSpread)
             maxTarget == st.averageLevel + levelSpread
         IN minTarget..maxTarget

\* HanziGame.calculateOpponentLevel, for one drawn targetLevel
CalculateOpponentLevel(opponent, targetLevel) ==
    Max(1, targetLevel + CalculateStrokeModifier(opponent.strokes)
           + (IF opponent.isPhrase THEN 1 ELSE 0)
           + (IF opponent.difficulty >= 4 THEN 1 ELSE 0))

\* stroke count of a phrase opponent: sum over its constituents, 5 if unknown
PhraseStrokes(chars) ==
    SumSeq([i \in 1..Len(chars) |->
               IF chars[i] \in DOMAIN ActiveCharacterData
               THEN ActiveCharacterData[chars[i]].strokes ELSE 5])

CalculateOpponentHP(o) ==
    (IF o.isPhrase THEN 50 ELSE 20) + o.strokes * 3 + (o.level - 1) * 5
CalculateOpponentAttack(o) ==
    (IF o.isPhrase THEN 15 ELSE 10) + o.difficulty * (IF o.isPhrase THEN 5 ELSE 4)
    + (o.level - 1) * (IF o.isPhrase THEN 3 ELSE 2)
CalculateOpponentDefense(o) ==
    (IF o.isPhrase THEN 12 ELSE 8) + Max(0, 10 - (o.frequency \div 10))
    + (o.level - 1) * (IF o.isPhrase THEN 3 ELSE 2)

\* HanziGame.createBattleOpponent, for one drawn targetLevel
CreateBattleOpponent(name, isPhrase, strokes, difficulty, frequency, targetLevel) ==
    LET o0 == [name |-> name, isPhrase |-> isPhrase, strokes |-> strokes,
               difficulty |-> difficulty, frequency |-> frequency]
        lvl == CalculateOpponentLevel(o0, targetLevel)
        o1 == [name |-> name, isPhrase |-> isPhrase, strokes |-> strokes,
               difficulty |-> difficulty, frequency |-> frequency, level |-> lvl]
    IN [name |-> name, isPhrase |-> isPhrase, strokes |-> strokes,
        difficulty |-> difficulty, frequency |-> frequency, level |-> lvl,
        maxHP |-> CalculateOpponentHP(o1), currentHP |-> CalculateOpponentHP(o1),
        attack |-> CalculateOpponentAttack(o1),
        defense |-> CalculateOpponentDefense(o1)]

\* generateWildOpponent: the candidates the player does not have
WildCharacters(roster) == {c \in DOMAIN ActiveCharacterData : c \notin DOMAIN roster}

\* the phrase candidates without the test of unlocked: every defined phrase
AllPhrasesWild(phs) == DOMAIN ActivePhraseData

WildPhrases(phs) ==
    {t \in DOMAIN ActivePhraseData : t \notin DOMAIN phs \/ ~phs[t].unlocked}

\* generateRandomOpponent: its randomChars (one of the eight is modelled)
MysteryNames == {"long"}

\* generateRandomOpponent: one of its names, the ends of its random ranges
MysteryOpponents(roster) ==
    {CreateBattleOpponent("long", FALSE, s, d, f, tl) :
        s \in {15, 24}, d \in {4, 5}, f \in {20, 49}, tl \in TargetLevels(roster)}

\* generateWildOpponent: every opponent it can return (selectWeightedOpponent
\* gives every candidate a weight >= 1, so each one can be drawn)
GenerateWildOpponent(roster, phs) ==
    IF WildCharacters(roster) = {} /\ WildPhrases(phs) = {}
    THEN MysteryOpponents(roster)
    ELSE {CreateBattleOpponent(c, FALSE, ActiveCharacterData[c].strokes,
                               ActiveCharacterData[c].difficulty,
                               ActiveCharacterData[c].frequency, tl) :
             c \in WildCharacters(roster), tl \in TargetLevels(roster)}
         \cup
         {CreateBattleOpponent(t, TRUE, PhraseStrokes(ActivePhraseData[t].characters),
                               ActivePhraseData[t].difficulty,
                               ActivePhraseData[t].frequency, tl) :
             t \in WildPhrases(phs), tl \in TargetLevels(roster)}

\* the data object of the definition an opponent was generated from
\* (opponent.originalData)
OriginalData(o) ==
    [strokes |-> o.strokes, difficulty |-> o.difficulty, frequency |-> o.frequency,
     level |-> 0, xp |-> 0, isPhraseCharacter |-> FALSE, originalPhrase |-> None]

\* rollForItemDrops: the item of a drop, rarityRoll given in percent
DroppedItem(o, rarityRoll) ==
    LET levelModifier == Min(30, o.level * 5)
        difficultyModifier == o.difficulty * 5
        adjustedRarityRoll == rarityRoll + levelModifier + difficultyModifier
    IN IF adjustedRarityRoll < 15 THEN "xp_boost_large"
       ELSE IF adjustedRarityRoll < 45 THEN "xp_boost_medium"
       ELSE "xp_boost_small"

\* rarityRoll = Math.random(): one value per 0.05 step (all bands are multiples
\* of 0.05, so the steps cover every outcome)
RarityRolls == {5 * k : k \in 0..19}

-----------------------------------------------------------------------------
(* class HanziGame: operations *)

\* what the last operation was; startPractice/spChar describe the call of
\* HanziGame.startPractice it made, if any ("returned" or "thrown")
\* no practice session
NoSession == [accuracy |-> 0, mistakeCount |-> 0, completionTime |-> 0]

\* outcome tells how the handler ended: "done", "thrown", or "no-op" when an
\* early return left it without effect; amount is the XP argument of addXP;
\* session is the practice session handleComplete recorded; damage is
\* result.damage of executeBattleTurn / executeEnemyTurn (0: no result)
Op(name, key, sp, spChar, granted) ==
    [op |-> name, key |-> key, startPractice |-> sp, spChar |-> spChar,
     granted |-> granted, outcome |-> "done", amount |-> 0, session |-> NoSession,
     damage |-> 0]

Session(op, in) == [op EXCEPT !.session = in]

Outcome(op, how) == [op EXCEPT !.outcome = how]

Amount(op, x) == [op EXCEPT !.amount = x]

Damage(op, d) == [op EXCEPT !.damage = d]

\* { ...activeCharacterData[char], ...data } and the basic entry of addCharacter
CharacterDataFor(char, data) ==
    IF char \in DOMAIN ActiveCharacterData
    THEN LET def == ActiveCharacterData[char] IN
         [strokes |-> OrDefault(data.strokes, def.strokes),
          difficulty |-> OrDefault(data.difficulty, def.difficulty),
          frequency |-> OrDefault(data.frequency, def.frequency),
          level |-> data.level, xp |-> data.xp,
          isPhraseCharacter |-> data.isPhraseCharacter,
          originalPhrase |-> data.originalPhrase]
    ELSE [strokes |-> OrDefault(data.strokes, 5),
          difficulty |-> OrDefault(data.difficulty, 1),
          frequency |-> OrDefault(data.frequency, 50),
          level |-> 0, xp |-> 0, isPhraseCharacter |-> FALSE,
          originalPhrase |-> None]

EmptyData ==
    [strokes |-> 0, difficulty |-> 0, frequency |-> 0, level |-> 0, xp |-> 0,
     isPhraseCharacter |-> FALSE, originalPhrase |-> None]

\* the state (roster, phrases, player) after a successful HanziGame.addCharacter
AddCharacterResult(roster, phs, pl, char, data) ==
    LET roster1 == (char :> NewCharacter(CharacterDataFor(char, data))) @@ roster
    IN [characters |-> roster1,
        phrases |-> CheckForNewUnlocks(phs, roster1),
        player |-> [pl EXCEPT !.totalCharacters = Cardinality(DOMAIN roster1),
                              !.totalPhrases = @ + Cardinality(NewUnlocks(phs, roster1))]]

\* HanziGame.createNewGame: the starters of the active data, two small boosts
NewGame ==
    [characters |-> [c \in SeqToSet(Starters) \cap DOMAIN ActiveCharacterData |->
                        DataOf(ActiveCharacterData[c])],
     phrases |-> <<>>,
     player |-> [level |-> 1, xp |-> 0, totalCharacters |-> Len(Starters),
                 totalPhrases |-> 0],
     bag |-> [items |-> [xp_boost_small |-> 2], maxSlots |-> BagMaxSlots]]

SavedCharacter(key, level, xp) ==
    [DataOf(DEFAULT_CHARACTERS[key]) EXCEPT !.level = level, !.xp = xp]

SavedPhrase(text, level, xp, unlocked, firstTimeCompleted) ==
    [PhraseDataOf(DEFAULT_PHRASES[text]) EXCEPT
        !.level = level, !.xp = xp, !.unlocked = unlocked,
        !.firstTimeCompleted = firstTimeCompleted]

\* Saved games (localStorage 'hanzi-game-save', written by saveGame after every
\* completed practice) that loadGameData can find.  Each is the save of a game
\* played from createNewGame with perfect 50 XP practice sessions:
\*  SaveTenPractices: six sessions on ni, four on hao;
\*  SaveTwelvePractices: six sessions on ni, six on hao (the last one unlocks nihao);
\*  SaveThreeSequences: SaveTwelvePractices, then the nihao sequence completed
\*   three times (85 + 35 + 35 phrase XP: level 2 with 5 XP; 3 x 20 player XP;
\*   the phrase-character nihao created by the first completion and given
\*   10 XP by each of the next two).
SaveTenPractices ==
    [characters |-> [ni  |-> SavedCharacter("ni", 3, 0),
                     hao |-> SavedCharacter("hao", 2, 100),
                     wo  |-> SavedCharacter("wo", 1, 0)],
     phrases |-> [nihao |-> SavedPhrase("nihao", 1, 0, FALSE, FALSE),
                  woshi |-> SavedPhrase("woshi", 1, 0, FALSE, FALSE)],
     player |-> [level |-> 2, xp |-> 50, totalCharacters |-> 3, totalPhrases |-> 0],
     bag |-> [items |-> [xp_boost_small |-> 2], maxSlots |-> BagMaxSlots]]

SaveTwelvePractices ==
    [characters |-> [ni  |-> SavedCharacter("ni", 3, 0),
                     hao |-> SavedCharacter("hao", 3, 0),
                     wo  |-> SavedCharacter("wo", 1, 0)],
     phrases |-> [nihao |-> SavedPhrase("nihao", 1, 0, TRUE, FALSE),
                  woshi |-> SavedPhrase("woshi", 1, 0, FALSE, FALSE)],
     player |-> [level |-> 2, xp |-> 100, totalCharacters |-> 3, totalPhrases |-> 1],
     bag |-> [items |-> [xp_boost_small |-> 2], maxSlots |-> BagMaxSlots]]

SaveThreeSequences ==
    [characters |-> [ni  |-> SavedCharacter("ni", 3, 150),
                     hao |-> SavedCharacter("hao", 3, 150),
                     wo  |-> SavedCharacter("wo", 1, 0),
                     nihao |-> [strokes |-> 13, difficulty |-> 1, frequency |-> 95,
                                level |-> 1, xp |-> 20, isPhraseCharacter |-> TRUE,
                                originalPhrase |-> "nihao"]],
     phrases |-> [nihao |-> SavedPhrase("nihao", 2, 5, TRUE, TRUE),
                  woshi |-> SavedPhrase("woshi", 1, 0, FALSE, FALSE)],
     player |-> [level |-> 2, xp |-> 310, totalCharacters |-> 4, totalPhrases |-> 1],
     bag |-> [items |-> [xp_boost_small |-> 2], maxSlots |-> BagMaxSlots]]

SavedGames == {SaveTenPractices, SaveTwelvePractices, SaveThreeSequences}

\* SaveTwelvePractices, six more sessions on hao, and shi added on the manage
\* screen (addCharacter)
SaveFourCharacters ==
    [characters |-> [ni  |-> SavedCharacter("ni", 3, 0),
                     hao |-> SavedCharacter("hao", 4, 0),
                     wo  |-> SavedCharacter("wo", 1, 0),
                     shi |-> SavedCharacter("shi", 1, 0)],
     phrases |-> [nihao |-> SavedPhrase("nihao", 1, 0, TRUE, FALSE),
                  woshi |-> SavedPhrase("woshi", 1, 0, FALSE, FALSE)],
     player |-> [level |-> 2, xp |-> 250, totalCharacters |-> 4, totalPhrases |-> 1],
     bag |-> [items |-> [xp_boost_small |-> 2], maxSlots |-> BagMaxSlots]]

\* SaveTwelvePractices loaded from a JSON file (loadFromJSON) with one more
\* phrase entry, kong, that has no "characters" field: new Phrase defaults it
\* to [] and its requirements to {}
SaveEmptyPhrase ==
    [SaveTwelvePractices EXCEPT
        !.phrases = ("kong" :> [characters |-> <<>>, requirements |-> [k \in {} |-> 0],
                                difficulty |-> 0, frequency |-> 0, level |-> 0,
                                xp |-> 0, unlocked |-> FALSE,
                                firstTimeCompleted |-> FALSE]) @@ @]

\* SaveTwelvePractices after a battle victory over the wild phrase woshi:
\* addDefeatedOpponent unlocked it although shi is not in the roster
SaveCapturedPhrase ==
    [SaveTwelvePractices EXCEPT
        !.phrases["woshi"].unlocked = TRUE,
        !.player.totalPhrases = 2]

\* SaveFourCharacters after yi was added on the manage screen and the wild
\* phrase woshi was captured in a battle: nothing is left to capture
SaveAllCollected ==
    [characters |-> [ni  |-> SavedCharacter("ni", 3, 0),
                     hao |-> SavedCharacter("hao", 4, 0),
                     wo  |-> SavedCharacter("wo", 1, 0),
                     shi |-> SavedCharacter("shi", 1, 0),
                     yi  |-> SavedCharacter("yi", 1, 0)],
     phrases |-> [nihao |-> SavedPhrase("nihao", 1, 0, TRUE, FALSE),
                  woshi |-> SavedPhrase("woshi", 1, 0, TRUE, FALSE)],
     player |-> [level |-> 2, xp |-> 250, totalCharacters |-> 5, totalPhrases |-> 2],
     bag |-> [items |-> [xp_boost_small |-> 2], maxSlots |-> BagMaxSlots]]

\* new Player(data): level || 1, xp || 0, totalCharacters || 0, totalPhrases || 0
NewPlayer(data) ==
    [level |-> OrDefault(data.level, 1), xp |-> OrDefault(data.xp, 0),
     totalCharacters |-> OrDefault(data.totalCharacters, 0),
     totalPhrases |-> OrDefault(data.totalPhrases, 0)]

\* Player.toJSON()
PlayerToJSON(pl) ==
    [level |-> pl.level, xp |-> pl.xp, totalCharacters |-> pl.totalCharacters,
     totalPhrases |-> pl.totalPhrases]

\* a toJSON that writes the definition of the character without its progress
CharacterToJSONNoProgress(c) ==
    [strokes |-> c.strokes, difficulty |-> c.difficulty, frequency |-> c.frequency,
     level |-> 0, xp |-> 0,
     isPhraseCharacter |-> c.isPhraseCharacter, originalPhrase |-> c.originalPhrase]

\* Character.toJSON(): hp, attack and defense are not written
CharacterToJSON(c) ==
    [strokes |-> c.strokes, difficulty |-> c.difficulty, frequency |-> c.frequency,
     level |-> c.level, xp |-> c.xp,
     isPhraseCharacter |-> c.isPhraseCharacter, originalPhrase |-> c.originalPhrase]

\* Phrase.toJSON(): hp, attack and defense are not written
PhraseToJSON(p) ==
    [characters |-> p.characters, requirements |-> p.requirements,
     difficulty |-> p.difficulty, frequency |-> p.frequency,
     level |-> p.level, xp |-> p.xp, unlocked |-> p.unlocked,
     firstTimeCompleted |-> p.firstTimeCompleted]

\* HanziGame.exportToJSON() (the export date left out)
ExportToJSON(roster, phs, pl, b) ==
    [player |-> PlayerToJSON(pl),
     bag |-> BagToJSON(b),
     characters |-> [c \in DOMAIN roster |-> CharacterToJSON(roster[c])],
     phrases |-> [t \in DOMAIN phs |-> PhraseToJSON(phs[t])]]

\* HanziGame.loadFromJSON(jsonData): the objects are rebuilt by the
\* constructors; initializePhrases and checkForNewUnlocks are not run
LoadFromJSON(data) ==
    [player |-> NewPlayer(data.player),
     bag |-> NewBag(data.bag),
     characters |-> [c \in DOMAIN data.characters |-> NewCharacter(data.characters[c])],
     phrases |-> [t \in DOMAIN data.phrases |-> NewPhrase(data.phrases[t])]]

\* HanziGame.init: loadGameData (data: a saved game, or that of createNewGame),
\* then initializePhrases and checkForNewUnlocks
LoadGame(data) ==
    LET roster == [c \in DOMAIN data.characters |-> NewCharacter(data.characters[c])]
        loaded == [t \in DOMAIN data.phrases |-> NewPhrase(data.phrases[t])]
        phs == InitializePhrases(loaded)
    IN /\ characters = roster
       /\ phrases = CheckForNewUnlocks(phs, roster)
       /\ player = [NewPlayer(data.player) EXCEPT
                       !.totalPhrases = @ + Cardinality(NewUnlocks(phs, roster))]
       /\ bag = NewBag(data.bag)
       /\ currentCharacter = [char |-> None, live |-> FALSE]
       /\ currentPhrase = None
       /\ currentPhraseIndex = 0
       /\ quizActive = FALSE
       /\ uiTimer = "none"
       /\ opsDone = 0
       /\ sequenceLog = <<>>
       /\ lastOp = Op("init", None, "none", None, FALSE)

\* HanziGame.addCharacter(char, {}) from GameUI.addNewCharacter (one glyph)
AddCharacter(char) ==
    /\ char \notin DOMAIN characters
    /\ opsDone < MaxOps
    /\ opsDone' = opsDone + 1
    /\ LET r == AddCharacterResult(characters, phrases, player, char, EmptyData)
       IN /\ characters' = r.characters
          /\ phrases' = r.phrases
          /\ player' = r.player
    /\ screen' = "manage-screen"
    /\ quizActive' = FALSE
    /\ lastOp' = Op("addCharacter", char, "none", None, FALSE)
    /\ UNCHANGED <<bag, currentCharacter, currentPhrase, currentPhraseIndex, uiTimer,
                   sequenceLog>>

\* the phrases whose first constituent is char: the other constituents are
\* not looked at
PhrasesStartingWith(phs, char) ==
    {t \in DOMAIN phs : Len(phs[t].characters) > 0 /\ phs[t].characters[1] = char}

\* the phrases whose constituent list includes char
PhrasesWith(phs, char) == {t \in DOMAIN phs : char \in SeqToSet(phs[t].characters)}

\* the counter after the loop of removeCharacter: one
\* totalPhrases = Math.max(0, totalPhrases - 1) per phrase that includes char
TotalPhrasesAfterRemove(phs, total, char) ==
    Max(0, total - Cardinality(PhrasesWith(phs, char)))

\* HanziGame.removeCharacter(char) on a roster member
RemoveCharacter(char) ==
    /\ char \in DOMAIN characters
    /\ opsDone < MaxOps
    /\ opsDone' = opsDone + 1
    /\ characters' = [k \in DOMAIN characters \ {char} |-> characters[k]]
    /\ phrases' = [t \in DOMAIN phrases |->
                      IF t \in PhrasesWith(phrases, char)
                      THEN [phrases[t] EXCEPT !.unlocked = FALSE] ELSE phrases[t]]
    /\ player' = [player EXCEPT
                     !.totalCharacters = Cardinality(DOMAIN characters \ {char}),
                     !.totalPhrases = TotalPhrasesAfterRemove(phrases, @, char)]
    \* currentCharacter keeps pointing at the object that left the roster
    /\ currentCharacter' = IF currentCharacter.char = char
                           THEN [currentCharacter EXCEPT !.live = FALSE]
                           ELSE currentCharacter
    /\ screen' = "manage-screen"
    /\ quizActive' = FALSE
    /\ lastOp' = Op("removeCharacter", char, "none", None, FALSE)
    /\ UNCHANGED <<bag, currentPhrase, currentPhraseIndex, uiTimer, sequenceLog>>

\* the practice sessions the model draws: accuracy in percent, mistakeCount,
\* completionTime in ms (a perfect session, slower than the 30 s speed bonus)
PracticeInputs == {[accuracy |-> 100, mistakeCount |-> 0, completionTime |-> 40000]}

\* startPhraseSequence without its final throw: a phrase without characters
\* leaves the call as a silent no-op
StartPhraseSequenceSilent(text, opName) ==
    LET chars == phrases[text].characters
    IN /\ currentPhrase' = text
       /\ currentPhraseIndex' = 0
       /\ sequenceLog' = <<>>
       /\ IF Len(chars) > 0 /\ chars[1] \in DOMAIN characters
          THEN /\ currentCharacter' = [char |-> chars[1], live |-> TRUE]
               /\ screen' = "practice-screen"
               /\ quizActive' = TRUE
               /\ lastOp' = Op(opName, text, "returned", chars[1], FALSE)
          ELSE /\ UNCHANGED <<currentCharacter, screen>>
               /\ quizActive' = FALSE
               /\ lastOp' = IF Len(chars) > 0
                            THEN Outcome(Op(opName, text, "thrown", chars[1], FALSE),
                                         "thrown")
                            ELSE Outcome(Op(opName, text, "none", None, FALSE), "no-op")
       /\ UNCHANGED <<characters, phrases, player, bag, uiTimer, opsDone>>

\* HanziGame.startPhraseSequence(phrase), then showScreen('practice-screen') and
\* initializePhraseWriter in its callers when it did not throw
StartPhraseSequence(text, opName) ==
    LET chars == phrases[text].characters
        ok == Len(chars) > 0 /\ chars[1] \in DOMAIN characters
    IN /\ currentPhrase' = text
       /\ currentPhraseIndex' = 0
       /\ sequenceLog' = <<>>
       /\ IF ok
          THEN /\ currentCharacter' = [char |-> chars[1], live |-> TRUE]
               /\ screen' = "practice-screen"
               /\ quizActive' = TRUE
               /\ lastOp' = Op(opName, text, "returned", chars[1], FALSE)
          ELSE \* throw new Error(...): caught by the caller, which shows a message
               /\ UNCHANGED <<currentCharacter, screen>>
               /\ quizActive' = FALSE
               /\ lastOp' = Outcome(Op(opName, text,
                                       IF Len(chars) > 0 THEN "thrown" ELSE "none",
                                       IF Len(chars) > 0 THEN chars[1] ELSE None, FALSE),
                                    "thrown")
       /\ UNCHANGED <<characters, phrases, player, bag, uiTimer, opsDone>>

\* GameUI.startPractice(char): the click on a roster card
StartPractice(char) ==
    /\ char \in DOMAIN characters
    /\ IF characters[char].isPhraseCharacter
       THEN \* startPhraseCharacterPractice
            /\ characters[char].originalPhrase \in DOMAIN phrases
            /\ StartPhraseSequence(characters[char].originalPhrase, "startPractice")
       ELSE \* HanziGame.startPractice(char); currentPhrase is left as it is
            /\ currentCharacter' = [char |-> char, live |-> TRUE]
            /\ screen' = "practice-screen"
            /\ quizActive' = TRUE
            /\ lastOp' = Op("startPractice", char, "returned", char, FALSE)
            /\ UNCHANGED <<characters, phrases, player, bag, currentPhrase,
                           currentPhraseIndex, uiTimer, opsDone,
                           sequenceLog>>

\* GameUI.practicePhraseSequence(phrase): the click on an unlocked phrase card
PracticePhraseSequence(text) ==
    /\ text \in DOMAIN phrases
    /\ phrases[text].unlocked
    /\ StartPhraseSequence(text, "practicePhraseSequence")

\* HanziGame.handleComplete and, through onPracticeComplete, the timers of
\* GameUI.handlePracticeComplete.  A quiz takes longer than the 2000 ms of a
\* pending timer, so no completion arrives while one is pending.
HandleComplete(in) ==
    /\ quizActive
    /\ screen = "practice-screen"
    /\ uiTimer = "none"
    /\ currentCharacter.char # None
    /\ opsDone < MaxOps
    /\ LET c == currentCharacter.char
           xpGained == CalculateXPReward(in.accuracy, in.mistakeCount, in.completionTime)
           roster1 == IF currentCharacter.live
                      THEN [characters EXCEPT ![c] = CharacterAddXP(@, xpGained)]
                      ELSE characters
           player1 == PlayerAddXP(player, xpGained \div 2)
           isLastCharacter ==
               currentPhrase # None
               /\ currentPhraseIndex = Len(phrases[currentPhrase].characters) - 1
       IN /\ currentCharacter.live => roster1[c].level <= MaxLevel
          /\ characters' = roster1
          /\ phrases' = CheckForNewUnlocks(phrases, roster1)
          /\ player' = [player1 EXCEPT
                           !.totalPhrases = @ + Cardinality(NewUnlocks(phrases, roster1))]
          /\ uiTimer' = IF currentPhrase = None THEN "none"
                        ELSE IF isLastCharacter THEN "complete" ELSE "advance"
          /\ sequenceLog' = IF currentPhrase = None THEN sequenceLog
                            ELSE Append(sequenceLog, c)
          /\ lastOp' = Session(Op("handleComplete", c, "none", None, FALSE), in)
    /\ quizActive' = FALSE
    /\ opsDone' = opsDone + 1
    /\ UNCHANGED <<bag, currentCharacter, currentPhrase, currentPhraseIndex, screen>>

\* HanziGame.createPhraseCharacter(phrase): the roster afterwards
CreatePhraseCharacter(roster, text, p) ==
    IF text \in DOMAIN roster THEN roster
    ELSE (text :> NewCharacter(
             [strokes |-> SumSeq([i \in 1..Len(p.characters) |->
                                     IF p.characters[i] \in DOMAIN roster
                                     THEN roster[p.characters[i]].strokes ELSE 5]),
              difficulty |-> p.difficulty, frequency |-> p.frequency,
              level |-> 1, xp |-> 0, isPhraseCharacter |-> TRUE,
              originalPhrase |-> text])) @@ roster

\* HanziGame.completePhraseSequence with currentPhrase set
CompletePhraseSequence(opName) ==
    LET text == currentPhrase
        p == phrases[text]
        bonusXP == Len(p.characters) * 10
        isFirstCompletion == ~p.firstTimeCompleted
        roster1 ==
            IF isFirstCompletion THEN CreatePhraseCharacter(characters, text, p)
            ELSE IF text \in DOMAIN characters /\ characters[text].isPhraseCharacter
                 THEN [characters EXCEPT ![text] = CharacterAddXP(@, bonusXP \div 2)]
                 ELSE characters
    IN /\ \A k \in DOMAIN roster1 : roster1[k].level <= MaxLevel
       /\ player' = [PlayerAddXP(player, bonusXP) EXCEPT
                        !.totalCharacters = IF isFirstCompletion /\ text \notin DOMAIN characters
                                            THEN Cardinality(DOMAIN roster1) ELSE @]
       /\ phrases' = [phrases EXCEPT ![text] = PhraseRecordPractice(p)]
       /\ characters' = roster1
       /\ currentPhrase' = None
       /\ currentPhraseIndex' = 0
       /\ lastOp' = Op(opName, text, "none", None, TRUE)

\* the 2000 ms timer of handlePracticeComplete that calls advancePhraseSequence
\* and then initializePhraseWriter
AdvanceTimer ==
    /\ uiTimer = "advance"
    /\ uiTimer' = "none"
    /\ IF currentPhrase = None
       THEN /\ lastOp' = Op("advancePhraseSequence", None, "none", None, FALSE)
            /\ UNCHANGED <<characters, phrases, player, currentCharacter, currentPhrase,
                           currentPhraseIndex, screen, quizActive>>
       ELSE LET chars == phrases[currentPhrase].characters
                next == currentPhraseIndex + 1
            IN IF next < Len(chars)
               THEN /\ currentPhraseIndex' = next
                    /\ IF chars[next + 1] \in DOMAIN characters
                       THEN /\ currentCharacter' = [char |-> chars[next + 1], live |-> TRUE]
                            /\ quizActive' = (screen = "practice-screen")
                            /\ lastOp' = Op("advancePhraseSequence", currentPhrase,
                                            "returned", chars[next + 1], FALSE)
                       ELSE \* startPractice throws inside the timer callback
                            /\ UNCHANGED <<currentCharacter, quizActive>>
                            /\ lastOp' = Op("advancePhraseSequence", currentPhrase,
                                            "thrown", chars[next + 1], FALSE)
                    /\ UNCHANGED <<characters, phrases, player, currentPhrase, screen>>
               ELSE /\ CompletePhraseSequence("advancePhraseSequence")
                    /\ UNCHANGED <<currentCharacter, screen, quizActive>>
    /\ UNCHANGED <<bag, opsDone, sequenceLog>>

\* the 2000 ms timer of handlePracticeComplete that calls completePhraseSequence
\* and then showScreen('character-select')
CompleteTimer ==
    /\ uiTimer = "complete"
    /\ uiTimer' = "none"
    /\ IF currentPhrase = None
       THEN /\ lastOp' = Op("completePhraseSequence", None, "none", None, FALSE)
            /\ UNCHANGED <<characters, phrases, player, currentPhrase,
                           currentPhraseIndex, screen, quizActive>>
       ELSE /\ CompletePhraseSequence("completePhraseSequence")
            /\ screen' = "character-select"
            /\ quizActive' = FALSE
    /\ UNCHANGED <<bag, currentCharacter, opsDone, sequenceLog>>

\* HanziGame.useItem(itemId, characterName) -> Bag.useItem -> Item.use, on a
\* roster member and a stack of the bag
UseItem(itemId, characterName) ==
    /\ characterName \in DOMAIN characters
    /\ itemId \in DOMAIN bag.items
    /\ opsDone < MaxOps
    /\ opsDone' = opsDone + 1
    /\ LET c1 == WithCharacterStats(
                     CharacterAddXP(characters[characterName], DEFAULT_ITEMS[itemId].value))
       IN /\ c1.level <= MaxLevel
          /\ characters' = [characters EXCEPT ![characterName] = c1]
    /\ bag' = BagUseItem(bag, itemId)
    /\ screen' = "items-screen"
    /\ quizActive' = FALSE
    /\ lastOp' = Op("useItem", characterName, "none", None, FALSE)
    /\ UNCHANGED <<phrases, player, currentCharacter, currentPhrase, currentPhraseIndex,
                   uiTimer, sequenceLog>>

\* addDefeatedOpponent without the test of this.characters[opponent.name]:
\* an owned character is replaced by a new one at level 1
AddDefeatedOpponentOverwrite(roster, phs, pl, o) ==
    IF o.isPhrase
    THEN LET phs1 == IF o.name \in DOMAIN phs THEN phs
                     ELSE (o.name :> NewPhrase(PhraseDataOf(ActivePhraseData[o.name]))) @@ phs
         IN [characters |-> roster,
             phrases |-> [phs1 EXCEPT ![o.name].unlocked = TRUE,
                                      ![o.name].level = 1,
                                      ![o.name].xp = 0],
             player |-> [pl EXCEPT !.totalPhrases = @ + 1]]
    ELSE AddCharacterResult([k \in DOMAIN roster \ {o.name} |-> roster[k]], phs, pl,
                            o.name, [OriginalData(o) EXCEPT !.level = 1, !.xp = 0])

\* HanziGame.addDefeatedOpponent(opponent) without the item roll
AddDefeatedOpponent(roster, phs, pl, o) ==
    IF o.isPhrase
    THEN LET phs1 == IF o.name \in DOMAIN phs THEN phs
                     ELSE (o.name :> NewPhrase(PhraseDataOf(ActivePhraseData[o.name]))) @@ phs
         IN [characters |-> roster,
             phrases |-> [phs1 EXCEPT ![o.name].unlocked = TRUE,
                                      ![o.name].level = 1,
                                      ![o.name].xp = 0],
             player |-> [pl EXCEPT !.totalPhrases = @ + 1]]
    ELSE IF o.name \notin DOMAIN roster
         THEN AddCharacterResult(roster, phs, pl, o.name,
                                 [OriginalData(o) EXCEPT !.level = 1, !.xp = 0])
         ELSE [characters |-> roster, phrases |-> phs, player |-> pl]

\* the victory resolution of a battle (GameUI.handleEnemyDefeated) as the engine
\* sees it: addDefeatedOpponent on a generated opponent, then rollForItemDrops
\* (drop = None: the 25 % roll failed)
Capture(o, drop) ==
    /\ opsDone < MaxOps
    /\ o \in GenerateWildOpponent(characters, phrases)
    /\ drop \in {None} \cup {DroppedItem(o, r) : r \in RarityRolls}
    /\ LET r == AddDefeatedOpponent(characters, phrases, player, o)
       IN /\ characters' = r.characters
          /\ phrases' = r.phrases
          /\ player' = r.player
    /\ bag' = IF drop = None THEN bag ELSE BagAddItem(bag, drop, 1)
    /\ opsDone' = opsDone + 1
    /\ screen' = "battle-screen"
    /\ quizActive' = FALSE
    /\ lastOp' = Op("addDefeatedOpponent", o.name, "none", None, FALSE)
    /\ UNCHANGED <<currentCharacter, currentPhrase, currentPhraseIndex, uiTimer,
                   sequenceLog>>

\* HanziGame.addDefeatedOpponent(battleState.enemy) and its rollForItemDrops,
\* called on the opponent object the battle holds, whatever the roster has
\* become since generateWildOpponent made it
AddDefeatedOpponentCall(drop) ==
    /\ enemy # 0
    /\ opsDone < MaxOps
    /\ LET o == enemies[enemy]
           r == AddDefeatedOpponent(characters, phrases, player, o)
           owned == ~o.isPhrase /\ o.name \in DOMAIN characters
       IN /\ drop \in {None} \cup {DroppedItem(o, roll) : roll \in RarityRolls}
          /\ characters' = r.characters
          /\ phrases' = r.phrases
          /\ player' = r.player
          /\ lastOp' = Outcome(Op("addDefeatedOpponent", o.name, "none", None, FALSE),
                               IF owned THEN "already owned" ELSE "done")
    /\ bag' = IF drop = None THEN bag ELSE BagAddItem(bag, drop, 1)
    /\ opsDone' = opsDone + 1
    /\ UNCHANGED <<currentCharacter, currentPhrase, currentPhraseIndex, screen,
                   quizActive, uiTimer, sequenceLog>>

CharKeys == DOMAIN DEFAULT_CHARACTERS \cup DOMAIN DEFAULT_PHRASES \cup {"long"}

-----------------------------------------------------------------------------
(* class PracticeTracker *)

PRACTICES_REQUIRED == 10

\* the constructor with nothing stored under 'hanzi-game-practice-tracker'
NewTracker ==
    [practiceCount |-> 0, battleUnlocked |-> FALSE, battleUsageCount |-> 0,
     practicesSinceBattle |-> 0]

\* the tracker stored after eighteen completed practice sessions and no battle
TrackerEighteenPractices ==
    [practiceCount |-> 10, battleUnlocked |-> TRUE, battleUsageCount |-> 0,
     practicesSinceBattle |-> 18]

\* what was called on the tracker since the constructor or reset()
NoHistory == [practices |-> 0, sinceBattle |-> 0, battles |-> 0]
HistoryEighteenPractices == [practices |-> 18, sinceBattle |-> 18, battles |-> 0]
PracticeCompleted(h) == [h EXCEPT !.practices = @ + 1, !.sinceBattle = @ + 1]
BattleRecorded(h) == [h EXCEPT !.battles = @ + 1, !.sinceBattle = 0]

\* incrementPracticeCount(practiceData): the count stops at PRACTICES_REQUIRED
IncrementPracticeCount(t) ==
    LET practiceCount == Min(t.practiceCount + 1, PRACTICES_REQUIRED)
    IN [t EXCEPT !.practiceCount = practiceCount,
                 !.practicesSinceBattle = @ + 1,
                 !.battleUnlocked = @ \/ practiceCount >= PRACTICES_REQUIRED]

IsBattleUnlocked(t) ==
    IF ~t.battleUnlocked \/ t.practiceCount < PRACTICES_REQUIRED THEN FALSE
    ELSE IF t.battleUsageCount = 0 THEN TRUE
    ELSE t.practicesSinceBattle >= PRACTICES_REQUIRED

\* incrementPracticeCount: the justUnlocked of its result, initialUnlock ||
\* battleReunlocked, from the tracker before the call
JustUnlocked(t) ==
    LET wasUnlocked == IsBattleUnlocked(t)
        practiceCount == Min(t.practiceCount + 1, PRACTICES_REQUIRED)
        practicesSinceBattle == t.practicesSinceBattle + 1
        initialUnlock == practiceCount >= PRACTICES_REQUIRED /\ ~t.battleUnlocked
        battleReunlocked == /\ t.battleUsageCount > 0
                            /\ practicesSinceBattle >= PRACTICES_REQUIRED
                            /\ ~wasUnlocked
    IN initialUnlock \/ battleReunlocked

\* forceUnlockBattles()
ForceUnlockBattles(t) ==
    [t EXCEPT !.battleUnlocked = TRUE,
              !.practiceCount = Max(@, PRACTICES_REQUIRED)]

\* a recordBattleUsed that counts the battle and keeps practicesSinceBattle
RecordBattleUsedKeepCount(t) ==
    [t EXCEPT !.battleUsageCount = @ + 1]

RecordBattleUsed(t) ==
    [t EXCEPT !.battleUsageCount = @ + 1, !.practicesSinceBattle = 0]

-----------------------------------------------------------------------------
(* class GameUI: the battle screen *)

MaxAttacks == 2
MaxEnemies == 2

\* Object.values(this.characters): insertion order; the starters come first
TeamOrder == <<"ni", "hao", "wo", "shi", "yi", "nihao", "woshi", "long">>

InRoster(k) == k \in DOMAIN characters

\* initializeBattleWithTeam: a copy of every roster member at full HP
BattleTeam(roster) ==
    LET keys == SelectSeq(TeamOrder, InRoster)
    IN [i \in 1..Len(keys) |->
           [char |-> keys[i], currentHP |-> roster[keys[i]].hp,
            hp |-> roster[keys[i]].hp, attack |-> roster[keys[i]].attack,
            defense |-> roster[keys[i]].defense, defeated |-> FALSE]]

\* Math.floor(Math.random() * 6) - 2 lies in -2..3: the two ends are drawn
Variations == {-2, 3}

\* the damage without the outer Math.max(1, ...): the variation is added to
\* the floored base and nothing more
BattleDamageNoFloor(attack, defense, variation) ==
    Max(1, attack - defense) + variation

\* the damage of executeBattleTurn and executeEnemyTurn
BattleDamage(attack, defense, variation) ==
    Max(1, Max(1, attack - defense) + variation)

RemoveAt(seq, i) == SubSeq(seq, 1, i - 1) \o SubSeq(seq, i + 1, Len(seq))

Timer(kind, p, e) == [kind |-> kind, player |-> p, enemy |-> e]

BattleOp(name, key) == Op(name, key, "none", None, FALSE)

practiceVars == <<currentCharacter, currentPhrase, currentPhraseIndex, quizActive,
                  uiTimer, opsDone, sequenceLog>>

\* GameUI.startBattle (the battle button of the character list) and
\* initializeBattleWithTeam, with at most six roster members
StartBattle(o) ==
    /\ screen = "character-select"
    /\ IsBattleUnlocked(tracker)
    /\ DOMAIN characters # {}
    /\ Cardinality(DOMAIN characters) <= 6
    /\ o \in GenerateWildOpponent(characters, phrases)
    /\ Len(enemies) < MaxEnemies
    /\ playerCharacters' = BattleTeam(characters)
    /\ currentPlayerCharacter' = 1
    /\ enemies' = Append(enemies, o)
    /\ enemy' = Len(enemies) + 1
    /\ screen' = "battle-screen"
    /\ lastOp' = BattleOp("startBattle", o.name)
    /\ UNCHANGED <<characters, phrases, player, bag, practiceVars, tracker, practiceHistory, timers,
                   attackBtnDisabled, fullDefeat, attacksDone, dataVars>>

\* GameUI.switchCharacter(index): the click on a team member that was rendered
\* neither defeated nor active
SwitchCharacter(index) ==
    /\ screen = "battle-screen"
    /\ index \in 1..Len(playerCharacters)
    /\ index # currentPlayerCharacter
    /\ ~playerCharacters[index].defeated
    /\ currentPlayerCharacter' = index
    /\ lastOp' = BattleOp("switchCharacter", playerCharacters[index].char)
    /\ UNCHANGED <<characters, phrases, player, bag, practiceVars, screen, tracker, practiceHistory,
                   playerCharacters, enemies, enemy, timers, attackBtnDisabled,
                   fullDefeat, attacksDone, dataVars>>

\* executeAttack without the test of attackResult.enemyDefeated: the
\* counter-attack is scheduled after every attack
ExecuteAttackCounterAlways(variation) ==
    /\ screen = "battle-screen"
    /\ ~attackBtnDisabled
    /\ attacksDone < MaxAttacks
    /\ attacksDone' = attacksDone + 1
    /\ IF currentPlayerCharacter = 0 \/ enemy = 0
       THEN /\ lastOp' = Outcome(BattleOp("executeAttack", None), "no-op")
            /\ UNCHANGED <<enemies, timers, attackBtnDisabled>>
       ELSE LET p == playerCharacters[currentPlayerCharacter]
                e == enemies[enemy]
                damage == BattleDamage(p.attack, e.defense, variation)
                hpLeft == Max(0, e.currentHP - damage)
            IN /\ enemies' = [enemies EXCEPT ![enemy].currentHP = hpLeft]
               /\ timers' = Append(timers, Timer("counter", currentPlayerCharacter, enemy))
               /\ lastOp' = BattleOp("executeAttack", p.char)
               /\ attackBtnDisabled' = TRUE
    /\ UNCHANGED <<characters, phrases, player, bag, practiceVars, screen, tracker, practiceHistory,
                   playerCharacters, currentPlayerCharacter, enemy, fullDefeat,
                   dataVars>>

\* GameUI.executeAttack: the click on the enabled attack button, or a direct
\* call of the handler; without an active character or an opponent it returns
\* at once
ExecuteAttack(variation) ==
    /\ screen = "battle-screen"
    /\ ~attackBtnDisabled
    /\ attacksDone < MaxAttacks
    /\ attacksDone' = attacksDone + 1
    /\ IF currentPlayerCharacter = 0 \/ enemy = 0
       THEN /\ lastOp' = Outcome(BattleOp("executeAttack", None), "no-op")
            /\ UNCHANGED <<enemies, timers, attackBtnDisabled>>
       ELSE LET p == playerCharacters[currentPlayerCharacter]
                e == enemies[enemy]
                damage == BattleDamage(p.attack, e.defense, variation)
                hpLeft == Max(0, e.currentHP - damage)
            IN /\ enemies' = [enemies EXCEPT ![enemy].currentHP = hpLeft]
               /\ timers' = Append(timers,
                                   Timer(IF hpLeft = 0 THEN "victory" ELSE "counter",
                                         currentPlayerCharacter, enemy))
               /\ lastOp' = BattleOp("executeAttack", p.char)
               /\ attackBtnDisabled' = TRUE
    /\ UNCHANGED <<characters, phrases, player, bag, practiceVars, screen, tracker, practiceHistory,
                   playerCharacters, currentPlayerCharacter, enemy, fullDefeat,
                   dataVars>>

\* the counter-attack on a team that holds the roster objects themselves in
\* place of copies: the damage also lowers the hp of the roster Character
CounterAttackOnRoster(i, variation) ==
    /\ i \in 1..Len(timers)
    /\ timers[i].kind = "counter"
    /\ LET p == timers[i].player
           e == enemies[timers[i].enemy]
           damage == BattleDamage(e.attack, playerCharacters[p].defense, variation)
           hpLeft == Max(0, playerCharacters[p].currentHP - damage)
       IN IF e.currentHP = 0
          THEN /\ attackBtnDisabled' = FALSE
               /\ timers' = RemoveAt(timers, i)
               /\ UNCHANGED <<playerCharacters, characters>>
          ELSE /\ playerCharacters' = [playerCharacters EXCEPT ![p].currentHP = hpLeft]
               /\ characters' = [characters EXCEPT ![playerCharacters[p].char].hp = hpLeft]
               /\ IF hpLeft = 0
                  THEN /\ timers' = Append(RemoveAt(timers, i), Timer("defeat", p, 0))
                       /\ UNCHANGED attackBtnDisabled
                  ELSE /\ timers' = RemoveAt(timers, i)
                       /\ attackBtnDisabled' = FALSE
    /\ lastOp' = BattleOp("counterAttack", playerCharacters[timers[i].player].char)
    /\ UNCHANGED <<phrases, player, bag, practiceVars, screen, tracker, practiceHistory,
                   currentPlayerCharacter, enemies, enemy, fullDefeat, attacksDone,
                   dataVars>>

\* the 1500 ms callback of executeAttack: the counter-attack of the enemy the
\* attack was made on, against the character that made it
CounterAttack(i, variation) ==
    /\ i \in 1..Len(timers)
    /\ timers[i].kind = "counter"
    /\ LET p == timers[i].player
           e == enemies[timers[i].enemy]
           damage == BattleDamage(e.attack, playerCharacters[p].defense, variation)
           hpLeft == Max(0, playerCharacters[p].currentHP - damage)
       IN IF e.currentHP = 0
          THEN \* executeEnemyTurn returns null
               /\ attackBtnDisabled' = FALSE
               /\ timers' = RemoveAt(timers, i)
               /\ UNCHANGED playerCharacters
          ELSE /\ playerCharacters' = [playerCharacters EXCEPT ![p].currentHP = hpLeft]
               /\ IF hpLeft = 0
                  THEN /\ timers' = Append(RemoveAt(timers, i), Timer("defeat", p, 0))
                       /\ UNCHANGED attackBtnDisabled
                  ELSE /\ timers' = RemoveAt(timers, i)
                       /\ attackBtnDisabled' = FALSE
    /\ lastOp' = BattleOp("counterAttack", playerCharacters[timers[i].player].char)
    /\ UNCHANGED <<characters, phrases, player, bag, practiceVars, screen, tracker, practiceHistory,
                   currentPlayerCharacter, enemies, enemy, fullDefeat, attacksDone,
                   dataVars>>

\* the 1000 ms callback of executeAttack: GameUI.handleEnemyDefeated
HandleEnemyDefeated(i, drop) ==
    /\ i \in 1..Len(timers)
    /\ timers[i].kind = "victory"
    /\ LET e == enemies[enemy]
           r == AddDefeatedOpponent(characters, phrases, player, e)
       IN /\ drop \in {None} \cup {DroppedItem(e, roll) : roll \in RarityRolls}
          /\ characters' = r.characters
          /\ phrases' = r.phrases
          /\ player' = r.player
          /\ lastOp' = BattleOp("addDefeatedOpponent", e.name)
    /\ bag' = IF drop = None THEN bag ELSE BagAddItem(bag, drop, 1)
    /\ tracker' = RecordBattleUsed(tracker)
    /\ practiceHistory' = BattleRecorded(practiceHistory)
    /\ attackBtnDisabled' = TRUE
    /\ timers' = RemoveAt(timers, i)
    /\ UNCHANGED <<practiceVars, screen, playerCharacters, currentPlayerCharacter,
                   enemies, enemy, fullDefeat, attacksDone, dataVars>>

\* the 1000 ms callback of the counter-attack: GameUI.handlePlayerCharacterDefeated
HandlePlayerCharacterDefeated(i) ==
    /\ i \in 1..Len(timers)
    /\ timers[i].kind = "defeat"
    /\ LET team == [playerCharacters EXCEPT ![currentPlayerCharacter].defeated = TRUE]
           remainingCharacters == {k \in 1..Len(team) : ~team[k].defeated}
       IN /\ playerCharacters' = team
          /\ lastOp' = BattleOp("handlePlayerCharacterDefeated",
                                team[currentPlayerCharacter].char)
          /\ IF remainingCharacters = {}
             THEN /\ tracker' = RecordBattleUsed(tracker)
                  /\ practiceHistory' = BattleRecorded(practiceHistory)
                  /\ fullDefeat' = TRUE
                  /\ timers' = Append(RemoveAt(timers, i), Timer("return", 0, 0))
                  /\ UNCHANGED <<currentPlayerCharacter, attackBtnDisabled>>
             ELSE /\ currentPlayerCharacter' =
                         CHOOSE k \in remainingCharacters :
                             \A m \in remainingCharacters : k <= m
                  /\ attackBtnDisabled' = FALSE
                  /\ timers' = RemoveAt(timers, i)
                  /\ UNCHANGED <<tracker, practiceHistory, fullDefeat>>
    /\ UNCHANGED <<characters, phrases, player, bag, practiceVars, screen, enemies,
                   enemy, attacksDone, dataVars>>

\* the 3000 ms callback of the full defeat: back to the character list
ReturnToPractice(i) ==
    /\ i \in 1..Len(timers)
    /\ timers[i].kind = "return"
    /\ screen' = "character-select"
    /\ timers' = RemoveAt(timers, i)
    /\ lastOp' = BattleOp("showScreen", None)
    /\ UNCHANGED <<characters, phrases, player, bag, practiceVars, tracker, practiceHistory,
                   playerCharacters, currentPlayerCharacter, enemies, enemy,
                   attackBtnDisabled, fullDefeat, attacksDone, dataVars>>

\* GameUI.generateNewEnemy: the click on the find-opponent button
GenerateNewEnemy(o) ==
    /\ screen = "battle-screen"
    /\ Len(enemies) < MaxEnemies
    /\ o \in GenerateWildOpponent(characters, phrases)
    /\ enemies' = Append(enemies, o)
    /\ enemy' = Len(enemies) + 1
    /\ attackBtnDisabled' = FALSE
    /\ lastOp' = BattleOp("generateNewEnemy", o.name)
    /\ UNCHANGED <<characters, phrases, player, bag, practiceVars, screen, tracker, practiceHistory,
                   playerCharacters, currentPlayerCharacter, timers, fullDefeat,
                   attacksDone, dataVars>>

\* the back button of the battle screen: exitBattle
ExitBattle ==
    /\ screen = "battle-screen"
    /\ screen' = "character-select"
    /\ lastOp' = BattleOp("exitBattle", None)
    /\ UNCHANGED <<characters, phrases, player, bag, practiceVars, tracker, practiceHistory,
                   playerCharacters, currentPlayerCharacter, enemies, enemy, timers,
                   attackBtnDisabled, fullDefeat, attacksDone, dataVars>>

\* no battle has been started
BattleIdle ==
    /\ playerCharacters = <<>>
    /\ currentPlayerCharacter = 0
    /\ enemies = <<>>
    /\ enemy = 0
    /\ timers = <<>>
    /\ attackBtnDisabled = FALSE
    /\ fullDefeat = FALSE
    /\ attacksDone = 0

-----------------------------------------------------------------------------
(* class DataManager *)

\* a required numeric field that the payload does not have
Missing == -1

\* an object without keys
NoEntries == [k \in {} |-> 0]

\* validateCharacterData: the entries that produce at least one error
\* (pinyin = None: the field is missing)
CharacterEntryErrors(e) ==
    \/ e.pinyin = None
    \/ e.strokes = Missing \/ e.strokes < 1
    \/ e.difficulty = Missing \/ e.difficulty < 1 \/ e.difficulty > 5
    \/ e.frequency = Missing \/ e.frequency < 0 \/ e.frequency > 100

ValidateCharacterData(data) == {c \in DOMAIN data : CharacterEntryErrors(data[c])}

\* validatePhraseData: the entries that produce at least one error
\* (characters = << >>: missing or empty; pinyin, meaning = None: missing)
PhraseEntryErrors(e) ==
    \/ Len(e.characters) = 0
    \/ e.difficulty = Missing \/ e.difficulty < 1 \/ e.difficulty > 5
    \/ e.frequency = Missing \/ e.frequency < 0 \/ e.frequency > 100
    \/ e.pinyin = None \/ e.meaning = None
    \/ \E i \in 1..Len(e.characters) : e.characters[i] \notin DOMAIN e.requirements
    \/ \E k \in DOMAIN e.requirements : k \notin SeqToSet(e.characters)

ValidatePhraseData(data) == {t \in DOMAIN data : PhraseEntryErrors(data[t])}

\* the character objects of the uploaded files
ExampleCharacters ==
    [xue |-> [pinyin |-> "xue", strokes |-> 8, difficulty |-> 2, frequency |-> 90],
     xi  |-> [pinyin |-> "xi", strokes |-> 3, difficulty |-> 1, frequency |-> 85]]

OneCharacter ==
    [xue |-> [pinyin |-> "xue", strokes |-> 8, difficulty |-> 2, frequency |-> 90]]

ZeroStrokeCharacters == [ExampleCharacters EXCEPT !["xi"].strokes = 0]

NoPinyinCharacters == [ExampleCharacters EXCEPT !["xue"].pinyin = None]

CharacterPayloads ==
    {ExampleCharacters, OneCharacter, ZeroStrokeCharacters, NoPinyinCharacters}

\* the phrase objects of the uploaded files
ExamplePhrases ==
    [xuexi |-> [characters |-> <<"xue", "xi">>, requirements |-> [xue |-> 3, xi |-> 2],
                difficulty |-> 2, frequency |-> 85, pinyin |-> "xue xi",
                meaning |-> "to study"]]

EasyPhrases == [ExamplePhrases EXCEPT !["xuexi"].difficulty = 1]

TooDifficultPhrases == [ExamplePhrases EXCEPT !["xuexi"].difficulty = 6]

NoCharactersPhrases == [ExamplePhrases EXCEPT !["xuexi"].characters = <<>>]

PhrasePayloads == {ExamplePhrases, EasyPhrases, TooDifficultPhrases, NoCharactersPhrases}

\* the parsed files: a file may hold "characters", "phrases", both or neither
Payloads ==
    {[hasCharacters |-> hc, characters |-> c, hasPhrases |-> hp, phrases |-> ph] :
        hc \in BOOLEAN, c \in CharacterPayloads, hp \in BOOLEAN, ph \in PhrasePayloads}

NoPayload ==
    [hasCharacters |-> FALSE, characters |-> ExampleCharacters,
     hasPhrases |-> FALSE, phrases |-> ExamplePhrases]

Stored(c, ph, src) == [characters |-> c, phrases |-> ph, dataSource |-> src]

\* DataManager.importCombinedData(parsed) as GameUI.handleFileUploads calls it:
\* importCharacterData, then importPhraseData; what is stored when it returns
\* or throws
ImportCombinedResult(before, payload) ==
    LET charsOk == payload.hasCharacters
                   /\ ValidateCharacterData(payload.characters) = {}
        afterChars == IF charsOk
                      THEN [before EXCEPT !.characters = payload.characters]
                      ELSE before
        phrasesOk == payload.hasPhrases /\ ValidatePhraseData(payload.phrases) = {}
    IN IF payload.hasCharacters /\ ~charsOk
       THEN [stored |-> before, success |-> FALSE]           \* Character data error
       ELSE IF payload.hasPhrases /\ ~phrasesOk
       THEN [stored |-> afterChars, success |-> FALSE]       \* Phrase data error
       ELSE IF ~payload.hasCharacters /\ ~payload.hasPhrases
       THEN [stored |-> before, success |-> FALSE]           \* no data found
       ELSE [stored |-> IF payload.hasPhrases
                        THEN [afterChars EXCEPT !.phrases = payload.phrases]
                        ELSE afterChars,
             success |-> TRUE]

ImportCombinedData(payload) ==
    LET before == Stored(customCharacters, customPhrases, dataSource)
        r == ImportCombinedResult(before, payload)
    IN /\ customCharacters' = r.stored.characters
       /\ customPhrases' = r.stored.phrases
       /\ dataSource' = r.stored.dataSource
       /\ lastImport' = [op |-> "importCombinedData", payload |-> payload,
                         before |-> before, success |-> r.success]
       /\ UNCHANGED <<engineVars, battleVars>>

\* the constructor with nothing stored under 'hanzi-game-custom-data'
NoCustomData ==
    /\ customCharacters = NoEntries
    /\ customPhrases = NoEntries
    /\ dataSource = "built-in"
    /\ lastImport = [op |-> "none", payload |-> NoPayload,
                     before |-> Stored(NoEntries, NoEntries, "built-in"),
                     success |-> FALSE]

-----------------------------------------------------------------------------
(* The progression engine: a game loaded from a save, or a new game *)

Init ==
    /\ \E data \in {NewGame} \cup SavedGames : LoadGame(data)
    /\ screen = "character-select"
    /\ tracker = NewTracker
    /\ practiceHistory = NoHistory
    /\ BattleIdle
    /\ NoCustomData

Next ==
    \/ /\ \E c \in DOMAIN ActiveCharacterData : AddCharacter(c)
       /\ UNCHANGED <<battleVars, dataVars>>
    \/ /\ \E c \in CharKeys : RemoveCharacter(c)
       /\ UNCHANGED <<battleVars, dataVars>>
    \/ /\ \E c \in CharKeys : StartPractice(c)
       /\ UNCHANGED <<battleVars, dataVars>>
    \/ /\ \E t \in DOMAIN DEFAULT_PHRASES : PracticePhraseSequence(t)
       /\ UNCHANGED <<battleVars, dataVars>>
    \/ /\ \E in \in PracticeInputs : HandleComplete(in)
       /\ UNCHANGED <<battleVars, dataVars>>
    \/ /\ AdvanceTimer
       /\ UNCHANGED <<battleVars, dataVars>>
    \/ /\ CompleteTimer
       /\ UNCHANGED <<battleVars, dataVars>>
    \/ /\ \E i \in ItemIds, c \in CharKeys : UseItem(i, c)
       /\ UNCHANGED <<battleVars, dataVars>>
    \/ /\ \E o \in GenerateWildOpponent(characters, phrases) :
             \E drop \in {None} \cup ItemIds : Capture(o, drop)
       /\ UNCHANGED <<battleVars, dataVars>>

Spec == Init /\ [][Next]_vars

-----------------------------------------------------------------------------
(* Character and Player progression: a character made from an imported
   definition, and XP added to it and to the player *)

\* definitions validateCharacterData accepts, the bounds of each range included
CharacterDefinitions ==
    {d \in [pinyin : {"zi"}, strokes : {1, 7}, difficulty : {1, 5},
            frequency : {0, 95, 100}] : ~CharacterEntryErrors(d)}

\* the amounts of addXP: nothing, a perfect practice, and amounts that span
\* several levels
XPAmounts == {0, 60, 500, 1000}

\* a game created with the custom data active (no starter is in it), to which
\* addCharacter('zi') added the character of the imported definition
InitCharacter ==
    /\ \E def \in CharacterDefinitions :
          /\ LoadGame([characters |-> ("zi" :> DataOf(def)),
                       phrases |-> [t \in {} |-> 0],
                       player |-> [level |-> 1, xp |-> 0, totalCharacters |-> 1,
                                   totalPhrases |-> 0],
                       bag |-> NewGame.bag])
          /\ customCharacters = ("zi" :> def)
    /\ customPhrases = NoEntries
    /\ dataSource = "custom"
    /\ lastImport = [op |-> "none", payload |-> NoPayload,
                     before |-> Stored(NoEntries, NoEntries, "built-in"),
                     success |-> FALSE]
    /\ screen = "character-select"
    /\ tracker = NewTracker
    /\ practiceHistory = NoHistory
    /\ BattleIdle

\* Character.addXP(amount) on a roster member
CharacterGainsXP(k, amount) ==
    /\ k \in DOMAIN characters
    /\ opsDone < MaxOps
    /\ CharacterAddXP(characters[k], amount).level <= MaxLevel
    /\ characters' = [characters EXCEPT ![k] = CharacterAddXP(@, amount)]
    /\ opsDone' = opsDone + 1
    /\ lastOp' = Amount(Op("Character.addXP", k, "none", None, FALSE), amount)
    /\ UNCHANGED <<phrases, player, bag, currentCharacter, currentPhrase,
                   currentPhraseIndex, screen, quizActive, uiTimer, sequenceLog,
                   battleVars, dataVars>>

\* Player.addXP(amount)
PlayerGainsXP(amount) ==
    /\ opsDone < MaxOps
    /\ PlayerAddXP(player, amount).level <= MaxLevel
    /\ player' = PlayerAddXP(player, amount)
    /\ opsDone' = opsDone + 1
    /\ lastOp' = Amount(Op("Player.addXP", None, "none", None, FALSE), amount)
    /\ UNCHANGED <<characters, phrases, bag, currentCharacter, currentPhrase,
                   currentPhraseIndex, screen, quizActive, uiTimer, sequenceLog,
                   battleVars, dataVars>>

NextCharacter ==
    \/ \E k \in DOMAIN characters, x \in XPAmounts : CharacterGainsXP(k, x)
    \/ \E x \in XPAmounts : PlayerGainsXP(x)

SpecCharacter == InitCharacter /\ [][NextCharacter]_vars

-----------------------------------------------------------------------------
(* Single-character practice: a new game, sessions of every quality *)

\* the sessions handleComplete records: accuracy in percent, the mistakes
\* counted, the time from startPractice in ms
RewardInputs ==
    [accuracy : {0, 57, 100}, mistakeCount : {0, 3, 30},
     completionTime : {10000, 29999, 30000}]

InitPractice ==
    /\ LoadGame(NewGame)
    /\ screen = "character-select"
    /\ tracker = NewTracker
    /\ practiceHistory = NoHistory
    /\ BattleIdle
    /\ NoCustomData

NextPractice ==
    \/ /\ \E c \in CharKeys : StartPractice(c)
       /\ UNCHANGED <<battleVars, dataVars>>
    \/ /\ \E in \in RewardInputs : HandleComplete(in)
       /\ UNCHANGED <<battleVars, dataVars>>

SpecPractice == InitPractice /\ [][NextPractice]_vars

-----------------------------------------------------------------------------
(* Phrase sequences: the practice handlers alone, on saves with unlocked phrases *)

InitSequence ==
    /\ \E data \in {SaveTwelvePractices, SaveThreeSequences, SaveEmptyPhrase,
                      SaveCapturedPhrase} : LoadGame(data)
    /\ screen = "character-select"
    /\ tracker = NewTracker
    /\ practiceHistory = NoHistory
    /\ BattleIdle
    /\ NoCustomData

NextSequence ==
    \/ /\ \E c \in CharKeys : StartPractice(c)
       /\ UNCHANGED <<battleVars, dataVars>>
    \/ /\ \E t \in DOMAIN phrases : PracticePhraseSequence(t)
       /\ UNCHANGED <<battleVars, dataVars>>
    \/ /\ \E in \in PracticeInputs : HandleComplete(in)
       /\ UNCHANGED <<battleVars, dataVars>>
    \/ /\ AdvanceTimer
       /\ UNCHANGED <<battleVars, dataVars>>
    \/ /\ CompleteTimer
       /\ UNCHANGED <<battleVars, dataVars>>

SpecSequence == InitSequence /\ [][NextSequence]_vars

-----------------------------------------------------------------------------
(* The battle screen: a game of eighteen practice sessions, battles unlocked *)

\* a battle in progress in which every team member but the last has been
\* defeated (HP 0) and the find-opponent button has just brought a new enemy
LateBattle(o) ==
    LET team == BattleTeam(characters)
    IN /\ playerCharacters =
              [i \in 1..Len(team) |->
                  IF i < Len(team)
                  THEN [team[i] EXCEPT !.currentHP = 0, !.defeated = TRUE]
                  ELSE team[i]]
       /\ currentPlayerCharacter = Len(team)
       /\ enemies = <<o>>
       /\ enemy = 1
       /\ timers = <<>>
       /\ attackBtnDisabled = FALSE
       /\ fullDefeat = FALSE
       /\ attacksDone = 0
       /\ screen = "battle-screen"

InitBattle ==
    /\ LoadGame(SaveFourCharacters)
    /\ tracker = TrackerEighteenPractices
    /\ practiceHistory = HistoryEighteenPractices
    /\ NoCustomData
    /\ \/ BattleIdle /\ screen = "character-select"
       \/ \E o \in GenerateWildOpponent(characters, phrases) : LateBattle(o)

NextBattle ==
    \/ \E o \in GenerateWildOpponent(characters, phrases) : StartBattle(o)
    \/ \E k \in 1..Len(TeamOrder) : SwitchCharacter(k)
    \/ \E v \in Variations : ExecuteAttack(v)
    \/ \E i \in 1..MaxAttacks, v \in Variations : CounterAttack(i, v)
    \/ \E i \in 1..MaxAttacks, drop \in {None} \cup ItemIds : HandleEnemyDefeated(i, drop)
    \/ \E i \in 1..MaxAttacks : HandlePlayerCharacterDefeated(i)
    \/ \E i \in 1..MaxAttacks : ReturnToPractice(i)
    \/ \E o \in GenerateWildOpponent(characters, phrases) : GenerateNewEnemy(o)

SpecBattle == InitBattle /\ [][NextBattle]_vars

\* a battle in progress in which earlier turns have defeated every team member
\* but the last two and left these with 1 HP each, the last one active; the
\* enemy is a new one, or one that earlier attacks have left with 1 HP
WoundedBattle(o, enemyHP) ==
    LET team == BattleTeam(characters)
    IN /\ playerCharacters =
              [i \in 1..Len(team) |->
                  IF i < Len(team) - 1
                  THEN [team[i] EXCEPT !.currentHP = 0, !.defeated = TRUE]
                  ELSE [team[i] EXCEPT !.currentHP = 1]]
       /\ currentPlayerCharacter = Len(team)
       /\ enemies = <<[o EXCEPT !.currentHP = enemyHP]>>
       /\ enemy = 1
       /\ timers = <<>>
       /\ attackBtnDisabled = FALSE
       /\ fullDefeat = FALSE
       /\ attacksDone = 0
       /\ screen = "battle-screen"

InitWounded ==
    /\ LoadGame(SaveFourCharacters)
    /\ tracker = TrackerEighteenPractices
    /\ practiceHistory = HistoryEighteenPractices
    /\ NoCustomData
    /\ \E o \in GenerateWildOpponent(characters, phrases) :
          \E enemyHP \in {1, o.maxHP} : WoundedBattle(o, enemyHP)

\* the battle screen until the battle is over: no new battle is started
NextWounded ==
    \/ \E k \in 1..Len(TeamOrder) : SwitchCharacter(k)
    \/ \E v \in Variations : ExecuteAttack(v)
    \/ \E i \in 1..MaxAttacks, v \in Variations : CounterAttack(i, v)
    \/ \E i \in 1..MaxAttacks, drop \in {None} \cup ItemIds : HandleEnemyDefeated(i, drop)
    \/ \E i \in 1..MaxAttacks : HandlePlayerCharacterDefeated(i)
    \/ \E i \in 1..MaxAttacks : ReturnToPractice(i)
    \/ \E o \in GenerateWildOpponent(characters, phrases) : GenerateNewEnemy(o)

SpecWounded == InitWounded /\ [][NextWounded]_vars

\* the battle screen with its back button, the find-opponent button left
\* alone.  The team is referred to by index, so a new battle is started once
\* the callbacks of the one before have run.
NextBattleExit ==
    \/ \E o \in GenerateWildOpponent(characters, phrases) :
          StartBattle(o) /\ timers = <<>>
    \/ \E k \in 1..Len(TeamOrder) : SwitchCharacter(k)
    \/ \E v \in Variations : ExecuteAttack(v)
    \/ \E i \in 1..MaxAttacks, v \in Variations : CounterAttack(i, v)
    \/ \E i \in 1..MaxAttacks, drop \in {None} \cup ItemIds : HandleEnemyDefeated(i, drop)
    \/ \E i \in 1..MaxAttacks : HandlePlayerCharacterDefeated(i)
    \/ \E i \in 1..MaxAttacks : ReturnToPractice(i)
    \/ ExitBattle

SpecBattleExit == InitBattle /\ [][NextBattleExit]_vars

\* executeAttack called on the battle state initializeBattleWithTeam has built
\* before an opponent is generated (enemy: null), or with an opponent
TeamChosen ==
    /\ playerCharacters = BattleTeam(characters)
    /\ currentPlayerCharacter = 1
    /\ enemies = <<>>
    /\ enemy = 0
    /\ timers = <<>>
    /\ attackBtnDisabled = FALSE
    /\ fullDefeat = FALSE
    /\ attacksDone = 0
    /\ screen = "battle-screen"

InitAttack ==
    /\ LoadGame(SaveFourCharacters)
    /\ tracker = TrackerEighteenPractices
    /\ practiceHistory = HistoryEighteenPractices
    /\ NoCustomData
    /\ TeamChosen

NextAttack ==
    \/ \E v \in Variations : ExecuteAttack(v)
    \/ \E o \in GenerateWildOpponent(characters, phrases) : GenerateNewEnemy(o)
    \/ \E k \in 1..Len(TeamOrder) : SwitchCharacter(k)
    \/ \E i \in 1..MaxAttacks, v \in Variations : CounterAttack(i, v)

SpecAttack == InitAttack /\ [][NextAttack]_vars

-----------------------------------------------------------------------------
(* Captures: addDefeatedOpponent on the opponent of a battle, after the roster
   went on changing (items used, characters added on the manage screen) *)

\* an opponent generateWildOpponent made when the game was as
\* SaveTwelvePractices records it; the game has since been played on to data
InitCapture ==
    /\ \E data \in {SaveTwelvePractices, SaveFourCharacters} : LoadGame(data)
    /\ tracker = TrackerEighteenPractices
    /\ practiceHistory = HistoryEighteenPractices
    /\ NoCustomData
    /\ playerCharacters = BattleTeam(characters)
    /\ currentPlayerCharacter = 1
    /\ \E o \in GenerateWildOpponent(
                    [c \in DOMAIN SaveTwelvePractices.characters |->
                        NewCharacter(SaveTwelvePractices.characters[c])],
                    [t \in DOMAIN SaveTwelvePractices.phrases |->
                        NewPhrase(SaveTwelvePractices.phrases[t])]) :
          enemies = <<o>>
    /\ enemy = 1
    /\ timers = <<>>
    /\ attackBtnDisabled = FALSE
    /\ fullDefeat = FALSE
    /\ attacksDone = 0
    /\ screen = "battle-screen"

NextCapture ==
    \/ /\ \E drop \in {None} \cup ItemIds : AddDefeatedOpponentCall(drop)
       /\ UNCHANGED <<battleVars, dataVars>>
    \/ /\ \E c \in DOMAIN ActiveCharacterData : AddCharacter(c)
       /\ UNCHANGED <<battleVars, dataVars>>
    \/ /\ \E i \in ItemIds, c \in CharKeys : UseItem(i, c)
       /\ UNCHANGED <<battleVars, dataVars>>
    \/ \E o \in GenerateWildOpponent(characters, phrases) : GenerateNewEnemy(o)

SpecCapture == InitCapture /\ [][NextCapture]_vars

-----------------------------------------------------------------------------
(* Opponent generation: battles started from a game with candidates left and
   from one with none, captures in between *)

InitOpponent ==
    /\ \E data \in {SaveTwelvePractices, SaveFourCharacters, SaveAllCollected} :
          LoadGame(data)
    /\ tracker = TrackerEighteenPractices
    /\ practiceHistory = HistoryEighteenPractices
    /\ NoCustomData
    /\ BattleIdle
    /\ screen = "character-select"

NextOpponent ==
    \/ \E o \in GenerateWildOpponent(characters, phrases) : StartBattle(o)
    \/ \E o \in GenerateWildOpponent(characters, phrases) : GenerateNewEnemy(o)
    \/ /\ \E drop \in {None} \cup ItemIds : AddDefeatedOpponentCall(drop)
       /\ UNCHANGED <<battleVars, dataVars>>

SpecOpponent == InitOpponent /\ [][NextOpponent]_vars

-----------------------------------------------------------------------------
(* The bag: stacks added, removed, used and dropped, on bags from almost empty
   to full *)

\* ids that are not in DEFAULT_ITEMS (addItemToBag accepts any id)
UnknownItemId(n) == "item_" \o ToString(n)

\* the bag of a game in which addItemToBag has stored n - 1 such ids next to
\* the two small boosts of createNewGame
BagOfStacks(n) ==
    [items |-> [i \in {"xp_boost_small"} \cup {UnknownItemId(k) : k \in 1..(n - 1)} |->
                   IF i = "xp_boost_small" THEN 2 ELSE 1],
     maxSlots |-> BagMaxSlots]

\* the ids and quantities the calls are made with
CalledItemIds == ItemIds \cup {UnknownItemId(1), UnknownItemId(BagMaxSlots - 1)}
CalledQuantities == {0, 1, 2}

InitBag ==
    /\ \E n \in {1, BagMaxSlots - 1, BagMaxSlots} :
          LoadGame([SaveTwelvePractices EXCEPT !.bag = BagOfStacks(n)])
    /\ screen = "character-select"
    /\ tracker = NewTracker
    /\ practiceHistory = NoHistory
    /\ BattleIdle
    /\ NoCustomData

\* HanziGame.addItemToBag(itemId, quantity)
AddItemToBag(itemId, quantity) ==
    /\ opsDone < MaxOps
    /\ opsDone' = opsDone + 1
    /\ bag' = BagAddItem(bag, itemId, quantity)
    /\ lastOp' = Amount(Outcome(Op("addItemToBag", itemId, "none", None, FALSE),
                                IF BagCanAdd(bag, itemId) THEN "done" ELSE "failed"),
                        quantity)
    /\ UNCHANGED <<characters, phrases, player, currentCharacter, currentPhrase,
                   currentPhraseIndex, screen, quizActive, uiTimer, sequenceLog>>

\* HanziGame.removeItemFromBag(itemId, quantity)
RemoveItemFromBag(itemId, quantity) ==
    /\ opsDone < MaxOps
    /\ opsDone' = opsDone + 1
    /\ bag' = BagRemoveItem(bag, itemId, quantity)
    /\ lastOp' = Amount(Outcome(Op("removeItemFromBag", itemId, "none", None, FALSE),
                                IF itemId \in DOMAIN bag.items /\ bag.items[itemId] >= quantity
                                THEN "done" ELSE "failed"),
                        quantity)
    /\ UNCHANGED <<characters, phrases, player, currentCharacter, currentPhrase,
                   currentPhraseIndex, screen, quizActive, uiTimer, sequenceLog>>

\* HanziGame.useItem(itemId, characterName) with any id and any name:
\* 'Character not found', then Bag.useItem ('Item not found'), then Item.use
\* ('Cannot use this item' unless the type is xp_boost); the stats are
\* recalculated after a success
UseItemCall(itemId, characterName) ==
    /\ opsDone < MaxOps
    /\ opsDone' = opsDone + 1
    /\ LET success == /\ characterName \in DOMAIN characters
                      /\ itemId \in DOMAIN bag.items
                      /\ ItemType(itemId) = "xp_boost"
       IN /\ IF success
             THEN LET c1 == WithCharacterStats(
                                CharacterAddXP(characters[characterName],
                                               DEFAULT_ITEMS[itemId].value))
                  IN /\ c1.level <= MaxLevel
                     /\ characters' = [characters EXCEPT ![characterName] = c1]
             ELSE UNCHANGED characters
          /\ bag' = IF characterName \in DOMAIN characters /\ itemId \in DOMAIN bag.items
                    THEN BagUseItem(bag, itemId)
                    ELSE bag
          /\ lastOp' = Outcome(Op("useItem", itemId, "none", characterName, FALSE),
                               IF success THEN "done" ELSE "failed")
    /\ UNCHANGED <<phrases, player, currentCharacter, currentPhrase,
                   currentPhraseIndex, screen, quizActive, uiTimer, sequenceLog>>

\* HanziGame.rollForItemDrops(opponent) when the 25 % roll succeeds
RollForItemDrops(o, rarityRoll) ==
    /\ opsDone < MaxOps
    /\ opsDone' = opsDone + 1
    /\ LET itemId == DroppedItem(o, rarityRoll)
       IN /\ bag' = BagAddItem(bag, itemId, 1)
          /\ lastOp' = Amount(Outcome(Op("rollForItemDrops", itemId, "none", None, FALSE),
                                      IF BagCanAdd(bag, itemId) THEN "done" ELSE "failed"),
                              1)
    /\ UNCHANGED <<characters, phrases, player, currentCharacter, currentPhrase,
                   currentPhraseIndex, screen, quizActive, uiTimer, sequenceLog>>

NextBag ==
    \/ /\ \E i \in CalledItemIds, q \in CalledQuantities : AddItemToBag(i, q)
       /\ UNCHANGED <<battleVars, dataVars>>
    \/ /\ \E i \in CalledItemIds, q \in CalledQuantities : RemoveItemFromBag(i, q)
       /\ UNCHANGED <<battleVars, dataVars>>
    \/ /\ \E i \in CalledItemIds, c \in CharKeys : UseItemCall(i, c)
       /\ UNCHANGED <<battleVars, dataVars>>
    \/ /\ \E o \in GenerateWildOpponent(characters, phrases), r \in RarityRolls :
             RollForItemDrops(o, r)
       /\ UNCHANGED <<battleVars, dataVars>>

SpecBag == InitBag /\ [][NextBag]_vars

-----------------------------------------------------------------------------
(* The practice tracker alone: practices counted and battles recorded in any
   order, from a fresh tracker *)

MaxPractices == 22
MaxBattles == 2

InitTracker ==
    /\ LoadGame(NewGame)
    /\ screen = "character-select"
    /\ tracker = NewTracker
    /\ practiceHistory = NoHistory
    /\ BattleIdle
    /\ NoCustomData

\* PracticeTracker.incrementPracticeCount()
IncrementPracticeCountCall ==
    /\ practiceHistory.practices < MaxPractices
    /\ tracker' = IncrementPracticeCount(tracker)
    /\ practiceHistory' = PracticeCompleted(practiceHistory)
    /\ lastOp' = Outcome(Op("incrementPracticeCount", None, "none", None,
                            JustUnlocked(tracker)),
                         IF IsBattleUnlocked(tracker') THEN "unlocked" ELSE "locked")

\* PracticeTracker.recordBattleUsed()
RecordBattleUsedCall ==
    /\ practiceHistory.battles < MaxBattles
    /\ tracker' = RecordBattleUsed(tracker)
    /\ practiceHistory' = BattleRecorded(practiceHistory)
    /\ lastOp' = Outcome(BattleOp("recordBattleUsed", None),
                         IF IsBattleUnlocked(tracker') THEN "unlocked" ELSE "locked")

\* PracticeTracker.reset()
ResetTracker ==
    /\ tracker' = NewTracker
    /\ practiceHistory' = NoHistory
    /\ lastOp' = Outcome(BattleOp("reset", None), "locked")

trackerRest == <<characters, phrases, player, bag, practiceVars, screen, playerCharacters,
                 currentPlayerCharacter, enemies, enemy, timers, attackBtnDisabled,
                 fullDefeat, attacksDone, dataVars>>

NextTracker ==
    \/ /\ IncrementPracticeCountCall
       /\ UNCHANGED trackerRest
    \/ /\ RecordBattleUsedCall
       /\ UNCHANGED trackerRest
    \/ /\ ResetTracker
       /\ UNCHANGED trackerRest

SpecTracker == InitTracker /\ [][NextTracker]_vars

\* the tracker with its testing/admin call as well
ForceUnlockBattlesCall ==
    /\ tracker' = ForceUnlockBattles(tracker)
    /\ lastOp' = Outcome(BattleOp("forceUnlockBattles", None),
                         IF IsBattleUnlocked(tracker') THEN "unlocked" ELSE "locked")
    /\ UNCHANGED practiceHistory

NextTrackerAdmin ==
    \/ /\ IncrementPracticeCountCall
       /\ UNCHANGED trackerRest
    \/ /\ RecordBattleUsedCall
       /\ UNCHANGED trackerRest
    \/ /\ ResetTracker
       /\ UNCHANGED trackerRest
    \/ /\ ForceUnlockBattlesCall
       /\ UNCHANGED trackerRest

SpecTrackerAdmin == InitTracker /\ [][NextTrackerAdmin]_vars

-----------------------------------------------------------------------------
(* The damage of a turn: HanziGame.executeBattleTurn and executeEnemyTurn called
   on the fighters of a battle, with every variation Math.random can give *)

\* Math.floor(Math.random() * 6) - 2: every value it can take
VariationDraws == -2..3

\* a battle as initializeBattleWithTeam and generateNewEnemy leave it, with any
\* team member active
Fighting(o) ==
    /\ playerCharacters = BattleTeam(characters)
    /\ currentPlayerCharacter \in 1..Len(BattleTeam(characters))
    /\ enemies = <<o>>
    /\ enemy = 1
    /\ timers = <<>>
    /\ attackBtnDisabled = FALSE
    /\ fullDefeat = FALSE
    /\ attacksDone = 0
    /\ screen = "battle-screen"

InitDamage ==
    /\ \E data \in {NewGame, SaveFourCharacters} : LoadGame(data)
    /\ tracker = TrackerEighteenPractices
    /\ practiceHistory = HistoryEighteenPractices
    /\ NoCustomData
    /\ \E o \in GenerateWildOpponent(characters, phrases) : Fighting(o)

\* HanziGame.executeBattleTurn(playerCharacter, enemy)
ExecuteBattleTurn(variation) ==
    /\ attacksDone < MaxAttacks
    /\ attacksDone' = attacksDone + 1
    /\ LET p == playerCharacters[currentPlayerCharacter]
           e == enemies[enemy]
           damage == BattleDamage(p.attack, e.defense, variation)
       IN /\ enemies' = [enemies EXCEPT ![enemy].currentHP = Max(0, e.currentHP - damage)]
          /\ lastOp' = Damage(BattleOp("executeBattleTurn", p.char), damage)
    /\ UNCHANGED <<characters, phrases, player, bag, practiceVars, screen, tracker, practiceHistory,
                   playerCharacters, currentPlayerCharacter, enemy, timers,
                   attackBtnDisabled, fullDefeat, dataVars>>

\* HanziGame.executeEnemyTurn(enemy, playerCharacter): null for an enemy at
\* HP 0, a result otherwise; it changes neither fighter
ExecuteEnemyTurn(variation) ==
    /\ attacksDone < MaxAttacks
    /\ attacksDone' = attacksDone + 1
    /\ LET p == playerCharacters[currentPlayerCharacter]
           e == enemies[enemy]
           damage == BattleDamage(e.attack, p.defense, variation)
       IN lastOp' = IF e.currentHP = 0
                    THEN Outcome(BattleOp("executeEnemyTurn", p.char), "no-op")
                    ELSE Damage(BattleOp("executeEnemyTurn", p.char), damage)
    /\ UNCHANGED <<characters, phrases, player, bag, practiceVars, screen, tracker, practiceHistory,
                   playerCharacters, currentPlayerCharacter, enemies, enemy, timers,
                   attackBtnDisabled, fullDefeat, dataVars>>

NextDamage ==
    \/ \E v \in VariationDraws : ExecuteBattleTurn(v)
    \/ \E v \in VariationDraws : ExecuteEnemyTurn(v)

SpecDamage == InitDamage /\ [][NextDamage]_vars

-----------------------------------------------------------------------------
(* The data manager: file uploads on the data screen *)

\* what loadCustomData finds: nothing, or the data and source of an earlier
\* session (an import of the examples, with or without a switch to them)
StoredCustomData ==
    {Stored(NoEntries, NoEntries, "built-in"),
     Stored(ExampleCharacters, ExamplePhrases, "built-in"),
     Stored(ExampleCharacters, ExamplePhrases, "custom")}

InitImport ==
    /\ LoadGame(NewGame)
    /\ screen = "data-screen"
    /\ tracker = NewTracker
    /\ practiceHistory = NoHistory
    /\ BattleIdle
    /\ \E st \in StoredCustomData :
          /\ customCharacters = st.characters
          /\ customPhrases = st.phrases
          /\ dataSource = st.dataSource
          /\ lastImport = [op |-> "none", payload |-> NoPayload, before |-> st,
                           success |-> FALSE]

NextImport == \E payload \in Payloads : ImportCombinedData(payload)

SpecImport == InitImport /\ [][NextImport]_vars

-----------------------------------------------------------------------------
(* The data source of the game: switches, imports and the clearing of the
   custom data, between phrase sequences *)

\* DataManager.getActivePhraseData() for a data source and stored custom phrases
GetActivePhraseData(source, custom) ==
    IF source = "custom" /\ DOMAIN custom # {} THEN custom ELSE DEFAULT_PHRASES

\* HanziGame.reinitializeWithCustomData: this.phrases = {}, initializePhrases
\* on the active definitions, checkForNewUnlocks, and the player's count of
\* unlocked phrases
ReinitializeWithCustomData(active) ==
    LET fresh == [t \in DOMAIN active |-> NewPhrase(PhraseDataOf(active[t]))]
        phs == CheckForNewUnlocks(fresh, characters)
    IN /\ phrases' = phs
       /\ player' = [player EXCEPT
                        !.totalPhrases = Cardinality({t \in DOMAIN phs : phs[t].unlocked})]

dataSourceRest == <<characters, bag, currentCharacter, currentPhrase, currentPhraseIndex,
                    screen, quizActive, uiTimer, opsDone, sequenceLog>>

\* HanziGame.switchDataSource(source): setDataSource throws for 'custom' with
\* nothing imported, and nothing changes then
SwitchDataSource(source) ==
    /\ currentPhrase = None
    /\ uiTimer = "none"
    /\ IF source = "custom" /\ DOMAIN customCharacters = {} /\ DOMAIN customPhrases = {}
       THEN /\ lastOp' = Outcome(BattleOp("switchDataSource", source), "failed")
            /\ UNCHANGED <<phrases, player, dataSource>>
       ELSE /\ dataSource' = source
            /\ ReinitializeWithCustomData(GetActivePhraseData(source, customPhrases))
            /\ lastOp' = BattleOp("switchDataSource", source)
    /\ UNCHANGED <<dataSourceRest, customCharacters, customPhrases, lastImport>>

\* HanziGame.clearCustomData: dataManager.clearCustomData() first, then the
\* test of getCurrentDataSource()
ClearCustomData ==
    /\ currentPhrase = None
    /\ uiTimer = "none"
    /\ customCharacters' = NoEntries
    /\ customPhrases' = NoEntries
    /\ dataSource' = "built-in"
    /\ IF dataSource' = "custom"
       THEN ReinitializeWithCustomData(GetActivePhraseData("built-in", customPhrases'))
       ELSE UNCHANGED <<phrases, player>>
    /\ lastOp' = BattleOp("clearCustomData", dataSource)
    /\ UNCHANGED <<dataSourceRest, lastImport>>

\* HanziGame.importCombinedData(jsonData): the import of the data manager,
\* and reinitializeWithCustomData after a success
GameImportCombinedData(payload) ==
    /\ currentPhrase = None
    /\ uiTimer = "none"
    /\ LET before == Stored(customCharacters, customPhrases, dataSource)
           r == ImportCombinedResult(before, payload)
       IN /\ customCharacters' = r.stored.characters
          /\ customPhrases' = r.stored.phrases
          /\ dataSource' = r.stored.dataSource
          /\ lastImport' = [op |-> "importCombinedData", payload |-> payload,
                            before |-> before, success |-> r.success]
          /\ IF r.success
             THEN ReinitializeWithCustomData(
                      GetActivePhraseData(r.stored.dataSource, r.stored.phrases))
             ELSE UNCHANGED <<phrases, player>>
          /\ lastOp' = Outcome(BattleOp("importCombinedData", None),
                               IF r.success THEN "done" ELSE "failed")
    /\ UNCHANGED dataSourceRest

\* two uploaded files that hold both objects: the examples, and the examples
\* with a phrase that validatePhraseData refuses
CombinedPayloads ==
    {pl \in Payloads : /\ pl.hasCharacters /\ pl.hasPhrases
                       /\ pl.characters = ExampleCharacters
                       /\ pl.phrases \in {ExamplePhrases, TooDifficultPhrases}}

\* a game in which the phrase nihao has been completed, with nothing imported
\* or the examples imported and not switched to
InitDataSource ==
    /\ LoadGame(SaveThreeSequences)
    /\ screen = "character-select"
    /\ tracker = NewTracker
    /\ practiceHistory = NoHistory
    /\ BattleIdle
    /\ \E st \in {Stored(NoEntries, NoEntries, "built-in"),
                   Stored(ExampleCharacters, ExamplePhrases, "built-in")} :
          /\ customCharacters = st.characters
          /\ customPhrases = st.phrases
          /\ dataSource = st.dataSource
          /\ lastImport = [op |-> "none", payload |-> NoPayload, before |-> st,
                           success |-> FALSE]

NextDataSource ==
    \/ /\ \E source \in {"built-in", "custom"} : SwitchDataSource(source)
       /\ UNCHANGED battleVars
    \/ /\ ClearCustomData
       /\ UNCHANGED battleVars
    \/ /\ \E payload \in CombinedPayloads : GameImportCombinedData(payload)
       /\ UNCHANGED battleVars
    \/ /\ \E c \in CharKeys : StartPractice(c)
       /\ UNCHANGED <<battleVars, dataVars>>
    \/ /\ \E t \in DOMAIN phrases : PracticePhraseSequence(t)
       /\ UNCHANGED <<battleVars, dataVars>>
    \/ /\ \E in \in PracticeInputs : HandleComplete(in)
       /\ UNCHANGED <<battleVars, dataVars>>
    \/ /\ AdvanceTimer
       /\ UNCHANGED <<battleVars, dataVars>>
    \/ /\ CompleteTimer
       /\ UNCHANGED <<battleVars, dataVars>>

SpecDataSource == InitDataSource /\ [][NextDataSource]_vars

-----------------------------------------------------------------------------
(* Phrase.recordPractice on a fresh phrase of N constituents *)

MaxPhraseLen == 75
MaxPhrasePractices == 3

\* a custom phrase of n constituents (one character, repeated)
LongPhraseData(n) ==
    [characters |-> [i \in 1..n |-> "ha"], requirements |-> [ha |-> 1],
     difficulty |-> 1, frequency |-> 50, pinyin |-> "ha", meaning |-> "laughter"]

InitPhraseXP ==
    /\ characters = [c \in DOMAIN NewGame.characters |->
                        NewCharacter(NewGame.characters[c])]
    /\ player = NewGame.player
    /\ bag = NewBag(NewGame.bag)
    /\ currentCharacter = [char |-> None, live |-> FALSE]
    /\ currentPhrase = None
    /\ currentPhraseIndex = 0
    /\ quizActive = FALSE
    /\ uiTimer = "none"
    /\ opsDone = 0
    /\ sequenceLog = <<>>
    /\ lastOp = Op("init", None, "none", None, FALSE)
    /\ screen = "character-select"
    /\ tracker = NewTracker
    /\ practiceHistory = NoHistory
    /\ BattleIdle
    /\ NoCustomData
    /\ \E n \in 1..MaxPhraseLen :
          /\ ValidatePhraseData([haha |-> LongPhraseData(n)]) = {}
          /\ phrases = [haha |-> NewPhrase(PhraseDataOf(LongPhraseData(n)))]

\* this.currentPhrase.recordPractice()
RecordPractice ==
    /\ opsDone < MaxPhrasePractices
    /\ opsDone' = opsDone + 1
    /\ phrases' = [phrases EXCEPT !["haha"] = PhraseRecordPractice(@)]
    /\ lastOp' = Op("recordPractice", "haha", "none", None, FALSE)
    /\ UNCHANGED <<characters, player, bag, currentCharacter, currentPhrase,
                   currentPhraseIndex, screen, quizActive, uiTimer, sequenceLog,
                   battleVars, dataVars>>

NextPhraseXP == RecordPractice

SpecPhraseXP == InitPhraseXP /\ [][NextPhraseXP]_vars

-----------------------------------------------------------------------------
(* Properties of the progression engine, checked under Spec *)

\* the phrases that were unlocked and contain char
UnlockedWith(phs, char) == {t \in PhrasesWith(phs, char) : phs[t].unlocked}

\* C1: removeCharacter(c) lowers player.totalPhrases by exactly the number of
\* phrases that were unlocked before the call and contain c (never below 0);
\* phrases that were already locked do not change the counter.
C1_RemoveCharacterCountsUnlockedOnly ==
    [][lastOp'.op = "removeCharacter" =>
          player'.totalPhrases =
              Max(0, player.totalPhrases
                     - Cardinality(UnlockedWith(phrases, lastOp'.key)))]_vars

\* the operations that raise a roster character's level or change the roster
RosterRaisingOps == {"handleComplete", "useItem", "addCharacter", "addDefeatedOpponent"}

\* C2: after every operation that raises a roster character's level or changes
\* the roster (practice completion, XP-boost item use, phrase completion,
\* addCharacter, capture), no phrase is left locked while its unlock
\* predicate holds.
C2_NoUnlockablePhraseLeftLocked ==
    (lastOp.op \in RosterRaisingOps \/ lastOp.granted) =>
        \A t \in DOMAIN phrases :
            CanUnlock(phrases[t], characters) => phrases[t].unlocked

\* C3: in every reachable state the cached hp, attack and defense of each
\* phrase equal its stat formulas at the phrase's current level.
C3_PhraseStatsMatchLevel ==
    \A t \in DOMAIN phrases :
        /\ phrases[t].hp = PhraseHP(phrases[t])
        /\ phrases[t].attack = PhraseAttack(phrases[t])
        /\ phrases[t].defense = PhraseDefense(phrases[t])

\* C5: a phrase sequence completion is granted only after a practice
\* completion was recorded for each constituent of the phrase, in order,
\* since the sequence started.
C5_CompletionAfterEveryConstituent ==
    lastOp.granted => sequenceLog = phrases[lastOp.key].characters

\* C10: a call of startPractice on a key that is not in the roster ends as a
\* failure result, never as an exception.
C10_AbsentKeyIsFailureResult ==
    (lastOp.startPractice # "none" /\ lastOp.spChar \notin DOMAIN characters) =>
        lastOp.startPractice = "failure"

-----------------------------------------------------------------------------
(* Properties of the battle screen, checked under SpecBattle *)

IsAttackTimer(t) == t.kind \in {"victory", "counter", "defeat"}

\* the attacks whose delayed victory, counter-attack or defeat handler has
\* not run yet
AttacksInFlight == Len(SelectSeq(timers, IsAttackTimer))

\* C6: at most one battle action is in flight at any time: from executeAttack
\* until its delayed counter-attack or defeat handler has completed, no second
\* executeAttack starts.
C6_OneAttackInFlight == AttacksInFlight <= 1

\* C7: a manual switch of the active battle character never takes effect
\* during attack resolution (between a player attack and the completion of
\* its counter-attack and of the defeat handling it triggers).
C7_NoSwitchDuringResolution ==
    lastOp.op = "switchCharacter" => AttacksInFlight = 0

\* C8: a team member is marked defeated only if its own battle HP is 0, and
\* the battle ends in full defeat only when every member's battle HP is 0.
C8_DefeatedOnlyAtZeroHP ==
    /\ \A i \in 1..Len(playerCharacters) :
           playerCharacters[i].defeated => playerCharacters[i].currentHP = 0
    /\ fullDefeat =>
           \A i \in 1..Len(playerCharacters) : playerCharacters[i].currentHP = 0

-----------------------------------------------------------------------------
(* Properties of Phrase.recordPractice, checked under SpecPhraseXP *)

\* the thresholds of the levels from..to-1
RECURSIVE ThresholdsConsumed(_, _)
ThresholdsConsumed(from, to) ==
    IF from >= to THEN 0
    ELSE PhraseXPForNextLevel(from) + ThresholdsConsumed(from + 1, to)

\* C4: after a Phrase.recordPractice call that starts from
\* 0 <= xp < level * 150, the phrase again has xp < (new level) * 150, and the
\* XP gained equals the remaining xp plus the thresholds consumed, for every
\* constituent count N >= 1 that validation accepts, with or without the
\* first-completion bonus.
C4_RecordPracticeKeepsXPBelowThreshold ==
    [][(lastOp'.op = "recordPractice"
        /\ phrases["haha"].xp >= 0
        /\ phrases["haha"].xp < PhraseXPForNextLevel(phrases["haha"].level)) =>
          /\ phrases'["haha"].xp < PhraseXPForNextLevel(phrases'["haha"].level)
          /\ phrases'["haha"].xp
                + ThresholdsConsumed(phrases["haha"].level, phrases'["haha"].level)
             = phrases["haha"].xp
                + PhraseXPGained(Len(phrases["haha"].characters),
                                 ~phrases["haha"].firstTimeCompleted)]_vars

-----------------------------------------------------------------------------
(* Properties of the data manager, checked under SpecImport *)

\* some character entry or some phrase entry of the payload fails validation
PayloadHasInvalidEntry(payload) ==
    \/ payload.hasCharacters /\ ValidateCharacterData(payload.characters) # {}
    \/ payload.hasPhrases /\ ValidatePhraseData(payload.phrases) # {}

\* C9: importCombinedData is all-or-nothing: if any character entry or any
\* phrase entry of the payload fails validation, the call fails and the stored
\* custom characters, custom phrases and data source are all unchanged.
C9_ImportAllOrNothing ==
    (lastImport.op = "importCombinedData"
     /\ PayloadHasInvalidEntry(lastImport.payload)) =>
        /\ ~lastImport.success
        /\ customCharacters = lastImport.before.characters
        /\ customPhrases = lastImport.before.phrases
        /\ dataSource = lastImport.before.dataSource

-----------------------------------------------------------------------------
(* The attack handler without an opponent, checked under SpecAttack *)

-----------------------------------------------------------------------------
(* Properties of phrase sequences (C12 under SpecSequence, C13 under Spec) *)

\* the operation was a call of startPhraseSequence on the phrase op.key
StartsSequence(op) ==
    \/ op.op = "practicePhraseSequence"
    \/ op.op = "startPractice" /\ op.key \in DOMAIN phrases

\* C12: startPhraseSequence on a phrase whose constituent list is empty always
\* raises an error and never starts a character practice session.
C12_EmptyPhraseSequenceRaises ==
    [][(StartsSequence(lastOp') /\ Len(phrases[lastOp'.key].characters) = 0) =>
          /\ lastOp'.outcome = "thrown"
          /\ lastOp'.startPractice = "none"
          /\ currentCharacter' = currentCharacter
          /\ ~quizActive']_vars

\* a sequence was started on the phrase without characters and the call threw
C12_Witness ==
    /\ StartsSequence(lastOp)
    /\ Len(phrases[lastOp.key].characters) = 0
    /\ lastOp.outcome = "thrown"

\* C13: on completion of a phrase sequence the player is credited exactly the
\* phrase's completion reward, 25 + 5 x (constituent count) plus 50 on the
\* first completion: the amount the phrase itself gains.
C13_PlayerCreditedPhraseReward ==
    [][lastOp'.granted =>
          LET p == phrases[lastOp'.key]
              credited == PlayerAddXP(player,
                              PhraseXPGained(Len(p.characters), ~p.firstTimeCompleted))
          IN player'.level = credited.level /\ player'.xp = credited.xp]_vars

-----------------------------------------------------------------------------
(* Properties of Character and Player, checked under SpecCharacter *)

\* C14: a Character made from a definition that validation accepts (strokes
\* >= 1, difficulty 1..5, frequency 0..100, the bounds included) has, at every
\* level, HP = 20 + 3 x strokes + 5 x (level - 1), Attack = 10 + (10 -
\* floor(frequency / 10)) + 2 x (level - 1) and Defense = 8 + 4 x difficulty +
\* 2 x (level - 1) of the definition's values.
C14_StatsFollowDefinition ==
    \A k \in DOMAIN characters \cap DOMAIN customCharacters :
        LET d == customCharacters[k]
            c == characters[k]
        IN /\ c.hp = 20 + 3 * d.strokes + 5 * (c.level - 1)
           /\ c.attack = 10 + (10 - (d.frequency \div 10)) + 2 * (c.level - 1)
           /\ c.defense = 8 + 4 * d.difficulty + 2 * (c.level - 1)

\* the sum of unit x k for k = from .. to - 1: the thresholds consumed by the
\* level-ups from level from to level to
ThresholdSum(unit, from, to) == unit * ((to * (to - 1) - from * (from - 1)) \div 2)

\* the state before the step satisfies the premise 0 <= x0 < threshold(n)
XPInRange(e, unit) == 0 <= e.xp /\ e.xp < unit * e.level

\* C15: Character.addXP and Player.addXP conserve XP: from level n with
\* 0 <= x0 < threshold(n), adding X >= 0 ends with 0 <= xp < threshold(final
\* level) and x0 + X = xp + the thresholds of the levels n .. final - 1
\* (threshold = level x 100 for a character, level x 200 for the player).
C15_AddXPConservesXP ==
    [][/\ (lastOp'.op = "Character.addXP" /\ XPInRange(characters[lastOp'.key], 100)) =>
             LET c == characters[lastOp'.key]
                 c2 == characters'[lastOp'.key]
             IN /\ XPInRange(c2, 100)
                /\ c2.level >= c.level
                /\ c.xp + lastOp'.amount = c2.xp + ThresholdSum(100, c.level, c2.level)
       /\ (lastOp'.op = "Player.addXP" /\ XPInRange(player, 200)) =>
             /\ XPInRange(player', 200)
             /\ player'.level >= player.level
             /\ player.xp + lastOp'.amount =
                   player'.xp + ThresholdSum(200, player.level, player'.level)]_vars

\* one addXP(500) has taken the character across two levels at once, after
\* the player had gained XP
C15_Witness ==
    /\ lastOp.op = "Character.addXP"
    /\ lastOp.amount = 500
    /\ characters["zi"].level = 3
    /\ characters["zi"].xp = 200
    /\ player.level > 1

-----------------------------------------------------------------------------
(* Properties of the roster, checked under Spec *)

\* C16: in every reachable state the cached hp, attack and defense of each
\* roster Character equal the stat formulas at its current level and its
\* strokes, frequency and difficulty, whatever changed the level (practice,
\* item use, phrase-completion XP, capture, loading a save).
C16_CharacterStatsMatchLevel ==
    \A k \in DOMAIN characters :
        LET c == characters[k]
        IN /\ c.hp = 20 + c.strokes * 3 + (c.level - 1) * 5
           /\ c.attack = 10 + (10 - (c.frequency \div 10)) + (c.level - 1) * 2
           /\ c.defense = 8 + c.difficulty * 4 + (c.level - 1) * 2

\* a practice completion has just taken ni (7 strokes) from level 1 to level 2
C16_Witness ==
    /\ lastOp.op = "handleComplete"
    /\ lastOp.key = "ni"
    /\ characters["ni"].level = 2
    /\ characters["ni"].xp = 0
    /\ characters["ni"].hp = 46

\* C17: after a successful removeCharacter(c), every phrase whose constituent
\* list contains c has unlocked = false, and every phrase that does not
\* contain c keeps its unlocked flag.
C17_RemoveCharacterRelocksItsPhrases ==
    [][lastOp'.op = "removeCharacter" =>
          /\ DOMAIN phrases' = DOMAIN phrases
          /\ \A t \in DOMAIN phrases :
                 IF \E i \in 1..Len(phrases[t].characters) :
                        phrases[t].characters[i] = lastOp'.key
                 THEN ~phrases'[t].unlocked
                 ELSE phrases'[t].unlocked = phrases[t].unlocked]_vars

\* hao has been removed from a roster with ni and hao at level 3: nihao, which
\* that roster had unlocked, is locked
C17_Witness ==
    /\ lastOp.op = "removeCharacter"
    /\ lastOp.key = "hao"
    /\ "ni" \in DOMAIN characters
    /\ characters["ni"].level = 3
    /\ ~phrases["nihao"].unlocked
    /\ opsDone = 1

\* C18: Phrase.canUnlock(roster) is true if and only if every constituent key
\* of the phrase is in the roster with a level >= that key's requirement
\* (nihao with requirements ni:3, hao:3 is refused for ni 3 / hao 2 and
\* accepted once hao is level 3).
C18_CanUnlockIffRequirementsMet ==
    \A t \in DOMAIN phrases :
        LET p == phrases[t]
            missing == {k \in SeqToSet(p.characters) : k \notin DOMAIN characters}
            tooLow == {k \in SeqToSet(p.characters) \ missing :
                          characters[k].level < p.requirements[k]}
        IN CanUnlock(p, characters) <=> (missing = {} /\ tooLow = {})

\* the roster ni 3 / hao 2, for which nihao was refused, has seen hao reach
\* level 3 in a practice: checkForNewUnlocks found canUnlock true and unlocked
\* nihao, while woshi stays refused
C18_Witness ==
    /\ lastOp.op = "handleComplete"
    /\ lastOp.key = "hao"
    /\ characters["hao"].level = 3
    /\ characters["hao"].xp = 0
    /\ characters["ni"].level = 3
    /\ CanUnlock(phrases["nihao"], characters)
    /\ phrases["nihao"].unlocked
    /\ ~CanUnlock(phrases["woshi"], characters)

-----------------------------------------------------------------------------
(* Properties of a practice completion, checked under SpecPractice *)

\* C19: the XP granted for one completed character practice is
\* max(5, 20 + floor(accuracy fraction x 30) + (10 if completionTime < 30000 ms)
\* - 2 x mistakeCount), hence between 5 and 60 (accuracy 100, no mistake,
\* 10000 ms gives 60).
C19_PracticeRewardFormula ==
    [][(lastOp'.op = "handleComplete" /\ currentCharacter.live) =>
          LET in == lastOp'.session
              c == characters[lastOp'.key]
              c2 == characters'[lastOp'.key]
              granted == c2.xp + ThresholdSum(100, c.level, c2.level) - c.xp
              raw == 20 + ((in.accuracy * 30) \div 100)
                        + (IF in.completionTime < 30000 THEN 10 ELSE 0)
                        - 2 * in.mistakeCount
          IN /\ granted = IF raw > 5 THEN raw ELSE 5
             /\ granted >= 5 /\ granted <= 60
             /\ (in = [accuracy |-> 100, mistakeCount |-> 0, completionTime |-> 10000])
                    => granted = 60]_vars

\* the session of accuracy 100, no mistake, 10000 ms has been completed on a
\* fresh character, which holds 60 XP
C19_Witness ==
    /\ lastOp.op = "handleComplete"
    /\ lastOp.session = [accuracy |-> 100, mistakeCount |-> 0, completionTime |-> 10000]
    /\ characters[lastOp.key].level = 1
    /\ characters[lastOp.key].xp = 60

-----------------------------------------------------------------------------
(* The phrase-character of a first completion, checked under SpecSequence *)

\* the stroke counts of the constituents of p, 5 for one that is not in roster
ConstituentStrokes(p, roster) ==
    [i \in 1..Len(p.characters) |->
        IF p.characters[i] \in DOMAIN roster THEN roster[p.characters[i]].strokes
        ELSE 5]

\* the sequence of lastOp'.key completes in this step, for the first time, and
\* no roster entry is keyed by the phrase text
FirstCompletion ==
    /\ lastOp'.granted
    /\ ~phrases[lastOp'.key].firstTimeCompleted
    /\ lastOp'.key \notin DOMAIN characters

\* C20: when a phrase's sequence completes for the first time and no roster
\* entry is keyed by the phrase text, the roster gains a Character keyed by the
\* phrase text with isPhraseCharacter = true, originalPhrase = the phrase text,
\* level 1, xp 0 and strokes equal to the sum of the constituents' stroke
\* counts (5 for each constituent missing from the roster).
C20_FirstCompletionCreatesPhraseCharacter ==
    [][FirstCompletion =>
          /\ lastOp'.key \in DOMAIN characters'
          /\ LET c == characters'[lastOp'.key]
             IN /\ c.isPhraseCharacter
                /\ c.originalPhrase = lastOp'.key
                /\ c.level = 1
                /\ c.xp = 0
                /\ c.strokes = SumSeq(ConstituentStrokes(phrases[lastOp'.key],
                                                         characters))]_vars

-----------------------------------------------------------------------------
(* The damage floor, checked under SpecDamage *)

\* the turn that has just been computed returned a result
TurnResult == lastOp.op \in {"executeBattleTurn", "executeEnemyTurn"}
              /\ lastOp.outcome = "done"

\* C21: for all attacker Attack and defender Defense values and every variance
\* draw, the damage of a player attack and of an enemy counter-attack is an
\* integer >= 1, also when Defense >= Attack.
C21_DamageAtLeastOne ==
    TurnResult => (lastOp.damage \in Int /\ lastOp.damage >= 1)

\* an enemy whose Attack does not exceed the Defense of the active character
\* has counter-attacked with the lowest variation: the damage is 1
C21_Witness ==
    /\ lastOp.op = "executeEnemyTurn"
    /\ lastOp.outcome = "done"
    /\ enemies[enemy].attack <= playerCharacters[currentPlayerCharacter].defense
    /\ lastOp.damage = 1
    /\ attacksDone = 2

-----------------------------------------------------------------------------
(* The order of the defeat check, checked under SpecBattle *)

\* the step is an attack that brings the current enemy to HP 0
LethalAttack ==
    /\ lastOp'.op = "executeAttack"
    /\ lastOp'.outcome = "done"
    /\ enemy # 0
    /\ enemies'[enemy].currentHP = 0

\* the step is a 1500 ms callback that lowers the HP of a team member
DamagingCounter ==
    /\ lastOp'.op = "counterAttack"
    /\ playerCharacters' # playerCharacters

\* the callback that ran is one of an enemy whose HP is above 0
FromLiveEnemy ==
    \E i \in 1..Len(timers) :
        /\ timers[i].kind = "counter"
        /\ enemies[timers[i].enemy].currentHP > 0
        /\ \/ timers' = RemoveAt(timers, i)
           \/ timers' = Append(RemoveAt(timers, i), Timer("defeat", timers[i].player, 0))

\* C22: an attack that reduces the enemy's HP to 0 is never followed by a
\* counter-attack from that enemy: the damage is applied, then HP = 0 is
\* checked, and only a surviving enemy counter-attacks; the lethal attack goes
\* to the victory resolution and leaves the player's team as it was, and a
\* callback that lowers the HP of a team member is one of an enemy above HP 0.
C22_NoCounterAfterLethalAttack ==
    /\ [][LethalAttack =>
             /\ timers' = Append(timers, Timer("victory", currentPlayerCharacter, enemy))
             /\ playerCharacters' = playerCharacters]_vars
    /\ [][DamagingCounter => FromLiveEnemy]_vars

\* the second attack on an enemy, after its counter-attack had hit the active
\* character, has brought it to HP 0: the victory resolution is pending and no
\* counter-attack is
C22_Witness ==
    /\ lastOp.op = "executeAttack"
    /\ enemy # 0
    /\ enemies[enemy].currentHP = 0
    /\ attacksDone = 2
    /\ playerCharacters[currentPlayerCharacter].currentHP
          < playerCharacters[currentPlayerCharacter].hp
    /\ timers = <<Timer("victory", currentPlayerCharacter, enemy)>>

-----------------------------------------------------------------------------
(* The roster during a battle, checked under SpecBattleExit *)

\* the persisted fields of the roster Characters
Persisted(roster) ==
    [k \in DOMAIN roster |->
        [level |-> roster[k].level, xp |-> roster[k].xp, hp |-> roster[k].hp,
         attack |-> roster[k].attack, defense |-> roster[k].defense]]

\* C23: no battle action other than the victory capture (attack,
\* counter-attack, switch, character defeat, full defeat, exit) changes the
\* level, xp, hp, attack or defense of a roster Character: battle damage goes
\* to the team copies and to the opponent only.
C23_BattleLeavesRosterAlone ==
    [][lastOp'.op # "addDefeatedOpponent" =>
          Persisted(characters') = Persisted(characters)]_vars

\* a counter-attack has hurt the active team member: its battle HP is below
\* the hp of its roster Character, which is still the one of its level
C23_Witness ==
    /\ lastOp.op = "counterAttack"
    /\ currentPlayerCharacter # 0
    /\ LET p == playerCharacters[currentPlayerCharacter]
       IN /\ p.currentHP < p.hp
          /\ characters[p.char].hp = p.hp
          /\ characters[p.char].hp = CharacterHP(characters[p.char])

-----------------------------------------------------------------------------
(* The victory capture, checked under SpecCapture *)

\* C24: the victory capture adds the defeated opponent at level 1 with XP 0 (a
\* character through addCharacter, a phrase by unlocking it); when the opponent
\* character is already in the roster the outcome is "already owned", not an
\* error, and the level and XP of that roster entry stay as they were.
C24_CaptureAtLevelOne ==
    [][(lastOp'.op = "addDefeatedOpponent" /\ enemy # 0) =>
          LET o == enemies[enemy]
          IN IF o.isPhrase
             THEN /\ o.name \in DOMAIN phrases'
                  /\ phrases'[o.name].unlocked
                  /\ phrases'[o.name].level = 1
                  /\ phrases'[o.name].xp = 0
             ELSE IF o.name \notin DOMAIN characters
             THEN /\ o.name \in DOMAIN characters'
                  /\ characters'[o.name].level = 1
                  /\ characters'[o.name].xp = 0
                  /\ lastOp'.outcome = "done"
             ELSE /\ lastOp'.outcome = "already owned"
                  /\ characters'[o.name].level = characters[o.name].level
                  /\ characters'[o.name].xp = characters[o.name].xp]_vars

\* the opponent shi was captured when shi, added after the opponent had been
\* generated, had reached level 2 through an item: already owned, still level 2
C24_Witness ==
    /\ lastOp.op = "addDefeatedOpponent"
    /\ lastOp.outcome = "already owned"
    /\ lastOp.key = "shi"
    /\ characters["shi"].level = 2
    /\ opsDone = 2

-----------------------------------------------------------------------------
(* Properties of generateWildOpponent, checked under SpecOpponent *)

\* the last operation put a newly generated opponent in battleState.enemy
OpponentGenerated == lastOp.op \in {"startBattle", "generateNewEnemy"}

\* the candidate pool of the state: defined characters that are not in the
\* roster, defined phrases that are not unlocked
PoolCharacters == {c \in DOMAIN ActiveCharacterData : c \notin DOMAIN characters}
PoolPhrases ==
    {t \in DOMAIN ActivePhraseData : t \notin DOMAIN phrases \/ ~phrases[t].unlocked}

\* C25: every opponent generateWildOpponent returns while the candidate pool is
\* not empty is a defined character that is not in the roster or a defined
\* phrase that is not unlocked; the mystery opponent of the fallback is
\* produced only when the pool is empty.
C25_OpponentFromPool ==
    OpponentGenerated =>
        LET o == enemies[enemy]
        IN /\ (PoolCharacters \cup PoolPhrases # {}) =>
                 IF o.isPhrase THEN o.name \in PoolPhrases
                 ELSE o.name \in PoolCharacters
           /\ (o.name \in MysteryNames) => (PoolCharacters \cup PoolPhrases = {})

\* after the capture of yi only the locked phrase woshi was left in the pool,
\* and the find-opponent button has brought woshi
C25_Witness ==
    /\ lastOp.op = "generateNewEnemy"
    /\ "yi" \in DOMAIN characters
    /\ PoolCharacters = {}
    /\ PoolPhrases = {"woshi"}
    /\ enemies[enemy].name = "woshi"
    /\ enemies[enemy].isPhrase

\* floor(total of the roster levels / roster size)
FlooredAverageLevel ==
    LET n == Cardinality(DOMAIN characters)
        total == SumLevels(characters, DOMAIN characters)
    IN CHOOSE a \in 0..total : a * n <= total /\ total < (a + 1) * n

\* the level of opponent o for the target level t
LevelFor(o, t) ==
    LET strokeModifier == IF o.strokes <= 3 THEN -2
                          ELSE IF o.strokes <= 6 THEN -1
                          ELSE IF o.strokes <= 10 THEN 0
                          ELSE IF o.strokes <= 15 THEN 1
                          ELSE 2
        raw == t + strokeModifier + (IF o.isPhrase THEN 1 ELSE 0)
                 + (IF o.difficulty >= 4 THEN 1 ELSE 0)
    IN IF raw >= 1 THEN raw ELSE 1

\* C26: every generated opponent has an integer level >= 1 equal to
\* max(1, target + strokeModifier + (1 if it is a phrase) + (1 if difficulty
\* >= 4)); for a roster whose floored average level is <= 3 the target is one
\* of avg - 1, avg, avg + 1; the stroke modifier is -2/-1/0/+1/+2 for strokes
\* <= 3 / <= 6 / <= 10 / <= 15 / > 15.
C26_OpponentLevelFormula ==
    (OpponentGenerated /\ DOMAIN characters # {}) =>
        LET o == enemies[enemy]
            avg == FlooredAverageLevel
        IN /\ o.level \in Int
           /\ o.level >= 1
           /\ avg <= 3 =>
                 \E t \in {avg - 1, avg, avg + 1} : o.level = LevelFor(o, t)

\* a battle was started against the one-stroke yi with the lowest target of a
\* roster of average level 2: 1 - 2 is below 1, the level is 1
C26_Witness ==
    /\ lastOp.op = "startBattle"
    /\ FlooredAverageLevel = 2
    /\ enemies[enemy].name = "yi"
    /\ enemies[enemy].strokes = 1
    /\ enemies[enemy].level = 1

-----------------------------------------------------------------------------
(* Properties of the bag, checked under SpecBag *)

\* the step is an addItem of an id that is not stored, on a full bag
AddToFullBag ==
    /\ lastOp'.op \in {"addItemToBag", "rollForItemDrops"}
    /\ lastOp'.key \notin DOMAIN bag.items
    /\ Cardinality(DOMAIN bag.items) >= bag.maxSlots

\* C27: the bag never holds more than maxSlots (default 50) distinct item
\* stacks and every stored stack has quantity >= 1; adding a new item id to a
\* full bag fails and leaves the bag unchanged.
C27_BagWithinCapacity ==
    /\ [](/\ Cardinality(DOMAIN bag.items) <= bag.maxSlots
          /\ \A i \in DOMAIN bag.items : bag.items[i] >= 1)
    /\ [][AddToFullBag => (bag' = bag /\ lastOp'.outcome = "failed")]_vars

\* a medium boost was asked of a bag of 50 stacks without one: the call
\* failed and the 50 stacks are there
C27_Witness ==
    /\ lastOp.op = "addItemToBag"
    /\ lastOp.key = "xp_boost_medium"
    /\ lastOp.outcome = "failed"
    /\ bag.maxSlots = 50
    /\ Cardinality(DOMAIN bag.items) = 50
    /\ "xp_boost_medium" \notin DOMAIN bag.items

-----------------------------------------------------------------------------
(* The export and its reload, checked under SpecCapture *)

\* the game that loadFromJSON builds from the export of the current one
Reloaded == LoadFromJSON(ExportToJSON(characters, phrases, player, bag))

\* C28: serialising the game state and loading it back yields an equivalent
\* state for every reachable state: the same roster membership, the same
\* level and XP for every character and phrase, the same player level and XP,
\* and the same bag contents and capacity.
C28_ExportReloadEquivalent ==
    /\ DOMAIN Reloaded.characters = DOMAIN characters
    /\ \A c \in DOMAIN characters :
          /\ Reloaded.characters[c].level = characters[c].level
          /\ Reloaded.characters[c].xp = characters[c].xp
    /\ DOMAIN Reloaded.phrases = DOMAIN phrases
    /\ \A t \in DOMAIN phrases :
          /\ Reloaded.phrases[t].level = phrases[t].level
          /\ Reloaded.phrases[t].xp = phrases[t].xp
    /\ Reloaded.player.level = player.level
    /\ Reloaded.player.xp = player.xp
    /\ Reloaded.bag.items = bag.items
    /\ Reloaded.bag.maxSlots = bag.maxSlots

\* a boost was used: a roster with shi in it, one character with XP, one
\* above level 1, and a bag that is not the one of the save
C28_Witness ==
    /\ lastOp.op = "useItem"
    /\ \E c \in DOMAIN characters : characters[c].xp > 0 /\ Reloaded.characters[c].xp > 0
    /\ \E c \in DOMAIN characters : characters[c].level > 1
    /\ "shi" \in DOMAIN Reloaded.characters
    /\ bag.items # [xp_boost_small |-> 2]
    /\ C28_ExportReloadEquivalent

-----------------------------------------------------------------------------
(* Properties of the practice tracker, checked under SpecTracker *)

\* C29: from a fresh or reset tracker, using only incrementPracticeCount and
\* recordBattleUsed, isBattleUnlocked() is true exactly when at least 10
\* practices have been completed in total and, if any battle has been
\* recorded, at least 10 practices have been completed since the most recent
\* recordBattleUsed.
C29_BattleUnlockedExactly ==
    IsBattleUnlocked(tracker) <=>
        /\ practiceHistory.practices >= 10
        /\ practiceHistory.battles > 0 => practiceHistory.sinceBattle >= 10

\* the tenth practice after a recorded battle unlocked the battles again
C29_Witness ==
    /\ lastOp.op = "incrementPracticeCount"
    /\ practiceHistory.battles > 0
    /\ practiceHistory.sinceBattle = 10
    /\ practiceHistory.practices > 10
    /\ IsBattleUnlocked(tracker)

-----------------------------------------------------------------------------
(* The opponent of the victory callback, checked under SpecBattle *)

\* the step is the 1000 ms victory callback: handleEnemyDefeated records the
\* battle and passes battleState.enemy to addDefeatedOpponent
VictoryResolution ==
    /\ lastOp'.op = "addDefeatedOpponent"
    /\ tracker'.battleUsageCount = tracker.battleUsageCount + 1

\* C30: the opponent that victory resolution adds to the roster and rolls loot
\* for is always the opponent whose HP the player's attack reduced to 0; an
\* opponent with currentHP > 0 is never captured.
C30_CapturedOpponentIsDefeated ==
    [][VictoryResolution =>
          /\ enemy # 0
          /\ enemies[enemy].currentHP = 0
          /\ lastOp'.key = enemies[enemy].name]_vars

-----------------------------------------------------------------------------
(* The character that attacks, checked under SpecWounded *)

\* the step is an executeAttack that went past its guard
AttackExecuted ==
    /\ lastOp'.op = "executeAttack"
    /\ lastOp'.outcome = "done"
    /\ attacksDone' = attacksDone + 1

\* C31: a player attack is never executed with an active battle character
\* that is marked defeated or whose battle HP is 0.
C31_AttackerIsStanding ==
    [][AttackExecuted =>
          /\ currentPlayerCharacter # 0
          /\ ~playerCharacters[currentPlayerCharacter].defeated
          /\ playerCharacters[currentPlayerCharacter].currentHP > 0]_vars

\* C32: once a battle outcome has been recorded with recordBattleUsed (victory
\* or full defeat), no further player attack is executed until the tracker
\* reports battles unlocked again, i.e. until 10 more practices have been
\* completed.
C32_NoAttackWhileLocked ==
    [][(AttackExecuted /\ tracker.battleUsageCount > 0) => IsBattleUnlocked(tracker)]_vars

(* A phrase sequence that fails to start, checked under SpecSequence *)
StartPhraseSequenceFailed ==
    /\ lastOp'.op \in {"practicePhraseSequence", "startPractice"}
    /\ lastOp'.outcome = "thrown"

\* C34: when startPhraseSequence fails (no constituents, or a first constituent
\* that is not in the roster) the controller is Idle afterwards:
\* isPhrasePractice() is false.
C34_FailedStartStaysIdle ==
    [][StartPhraseSequenceFailed => currentPhrase' = None]_vars

(* The random variation of the damage, checked under SpecDamage *)

\* C35: the damage of a player attack and of an enemy counter-attack never
\* exceeds max(1, Attack - Defense) + 2.
C35_DamageWithinTwoOfBase ==
    LET p == playerCharacters[currentPlayerCharacter]
        e == enemies[enemy]
    IN /\ lastOp.op = "executeBattleTurn"
            => lastOp.damage <= Max(1, p.attack - e.defense) + 2
       /\ (lastOp.op = "executeEnemyTurn" /\ lastOp.outcome # "no-op")
            => lastOp.damage <= Max(1, e.attack - p.defense) + 2

(* The rarity of a drop against the level of the opponent, checked under SpecBag *)

\* the rarity of the three boosts: small (common), medium (uncommon), large (rare)
RarityTier(itemId) ==
    IF itemId = "xp_boost_large" THEN 3
    ELSE IF itemId = "xp_boost_medium" THEN 2
    ELSE 1

\* C36: for a fixed rarity roll and a fixed difficulty, the rarity of the item
\* an opponent drops never decreases as the level of the opponent increases.
C36_DropTierMonotoneInLevel ==
    \A o1, o2 \in GenerateWildOpponent(characters, phrases) :
        \A r \in RarityRolls :
            (o1.difficulty = o2.difficulty /\ o1.level <= o2.level)
                => RarityTier(DroppedItem(o1, r)) <= RarityTier(DroppedItem(o2, r))

(* The tracker's forced unlock, checked under SpecTrackerAdmin *)

\* C39: after forceUnlockBattles() isBattleUnlocked() is true, from every
\* tracker state.
C39_ForceUnlockUnlocks ==
    [][lastOp'.op = "forceUnlockBattles" => IsBattleUnlocked(tracker')]_vars

(* The justUnlocked of a counted practice, checked under SpecTracker *)

\* C40: incrementPracticeCount reports justUnlocked exactly when
\* isBattleUnlocked() was false before the call and is true after it.
C40_JustUnlockedIffTransition ==
    [][lastOp'.op = "incrementPracticeCount" =>
          (lastOp'.granted <=> (~IsBattleUnlocked(tracker) /\ IsBattleUnlocked(tracker')))]_vars

(* The use of an item, checked under SpecBag *)

\* the XP a character has been given in all: that of the levels it has left
\* behind (level x 100 each) and that of its current level
TotalCharacterXP(c) == c.xp + ThresholdSum(100, 1, c.level)

\* C37: useItem is atomic.  On success the target character gains exactly the
\* item's value in XP, no other character changes, and the item's stack loses
\* exactly one unit (it is removed when it reaches 0) while the other stacks
\* stay; on failure neither the bag nor any character changes.
C37_UseItemAtomic ==
    [][lastOp'.op = "useItem" =>
          LET itemId == lastOp'.key
              characterName == lastOp'.spChar
          IN IF lastOp'.outcome = "done"
             THEN /\ DOMAIN characters' = DOMAIN characters
                  /\ TotalCharacterXP(characters'[characterName]) =
                         TotalCharacterXP(characters[characterName])
                         + DEFAULT_ITEMS[itemId].value
                  /\ \A d \in DOMAIN characters \ {characterName} :
                         characters'[d] = characters[d]
                  /\ IF bag.items[itemId] = 1
                     THEN DOMAIN bag'.items = DOMAIN bag.items \ {itemId}
                     ELSE /\ DOMAIN bag'.items = DOMAIN bag.items
                          /\ bag'.items[itemId] = bag.items[itemId] - 1
                  /\ \A j \in DOMAIN bag.items \ {itemId} :
                         bag'.items[j] = bag.items[j]
                  /\ bag'.maxSlots = bag.maxSlots
             ELSE bag' = bag /\ characters' = characters]_vars

\* the last unit of a stack was used on a roster member, which it took to a
\* higher level
C37_Witness ==
    /\ lastOp.op = "useItem"
    /\ lastOp.outcome = "done"
    /\ lastOp.key \notin DOMAIN bag.items
    /\ characters[lastOp.spChar].level > 1

\* a use that failed on a stored item that is no boost
C37_WitnessFailure ==
    /\ lastOp.op = "useItem"
    /\ lastOp.outcome = "failed"
    /\ lastOp.key \in DOMAIN bag.items
    /\ lastOp.spChar \in DOMAIN characters

(* The data source and the phrases, checked under SpecDataSource *)

\* completePhraseSequence takes the first-completion branch for phrase t:
\* recordPractice with the +50 bonus and createPhraseCharacter
FirstCompletionOutcome(t) ==
    /\ lastOp'.op \in {"completePhraseSequence", "advancePhraseSequence"}
    /\ lastOp'.granted
    /\ lastOp'.key = t
    /\ ~phrases[t].firstTimeCompleted

\* C33: for each phrase the first-completion outcome occurs at most once over
\* the lifetime of a game: never again once an earlier first completion has
\* put the phrase-character of the phrase into the roster (nothing else does
\* under SpecDataSource, and nothing removes it).
C33_FirstCompletionOnce ==
    [][\A t \in DOMAIN phrases :
          FirstCompletionOutcome(t) =>
              ~(t \in DOMAIN characters /\ characters[t].isPhraseCharacter)]_vars

\* C38: after clearCustomData with custom data as the active source the
\* phrases of the engine are those of the built-in definitions, none that
\* exists only in the cleared custom data.
C38_ClearRestoresBuiltInPhrases ==
    [][(lastOp'.op = "clearCustomData" /\ dataSource = "custom") =>
          /\ DOMAIN phrases' = DOMAIN DEFAULT_PHRASES
          /\ DOMAIN phrases' \cap (DOMAIN customPhrases \ DOMAIN DEFAULT_PHRASES) = {}]_vars

====
